---- MODULE Spec2Model ----
(***************************************************************************)
(* Model of the recipe-ingredient reconciliation of the smartfridge        *)
(* application: parse_recipe_ingredient and the use_recipe request handler *)
(* (app/fridge/routes.py) over the User / Ingredient / Recipe tables       *)
(* (app/models.py).                                                        *)
(*                                                                         *)
(* Conventions.  A Python string is a sequence of one-character strings;   *)
(* a line of ingredients_text is the sequence of its whitespace-separated  *)
(* tokens (tokens are separated by single blanks).  An Optional value is   *)
(* <<>> (None) or <<v>>.  A number (Decimal or float) is an exact rational *)
(* <<n, d>> with d > 0 in lowest terms; float rounding is not modelled.    *)
(***************************************************************************)
EXTENDS Integers, Sequences, FiniteSets, TLC

(***************************************************************************)
(* Bounds of the model.                                                    *)
(***************************************************************************)
\* largest stored amount of a field of an ingredient record in Init
MaxAmt == 2
\* largest number of lines of a recipe's ingredients_text
MaxLines == 2

(***************************************************************************)
(* Optional values and numbers.                                            *)
(***************************************************************************)
None == <<>>

Some(v) == <<v>>

IsNone(o) == o = <<>>

Val(o) == o[1]

RECURSIVE Gcd(_, _)
Gcd(a, b) == IF b = 0 THEN a ELSE Gcd(b, a % b)

Abs(x) == IF x < 0 THEN 0 - x ELSE x

\* the rational n/d (d > 0) in lowest terms
Rat(n, d) == LET g == Gcd(Abs(n), d) IN <<n \div g, d \div g>>

RatAdd(a, b) == Rat(a[1] * b[2] + b[1] * a[2], a[2] * b[2])

RatSub(a, b) == Rat(a[1] * b[2] - b[1] * a[2], a[2] * b[2])

RatGeq(a, b) == a[1] * b[2] >= b[1] * a[2]

RatLeqZero(a) == a[1] <= 0

(***************************************************************************)
(* Strings.                                                                *)
(***************************************************************************)
UpperAlpha == <<"A","B","C","D","E","F","G","H","I","J","K","L","M",
                "N","O","P","Q","R","S","T","U","V","W","X","Y","Z">>

LowerAlpha == <<"a","b","c","d","e","f","g","h","i","j","k","l","m",
                "n","o","p","q","r","s","t","u","v","w","x","y","z">>

DigitChars == <<"0","1","2","3","4","5","6","7","8","9">>

InSeq(c, s) == \E i \in 1..Len(s) : s[i] = c

IndexOf(c, s) == CHOOSE i \in 1..Len(s) : s[i] = c

\* str.lower() on one character
LowerChar(c) == IF InSeq(c, UpperAlpha) THEN LowerAlpha[IndexOf(c, UpperAlpha)] ELSE c

\* str.lower()
Lower(s) == [i \in 1..Len(s) |-> LowerChar(s[i])]

IsDigit(c) == InSeq(c, DigitChars)

\* \w of the regular expressions, and the class [\w-]
IsWordChar(c) == IsDigit(c) \/ InSeq(c, UpperAlpha) \/ InSeq(c, LowerAlpha) \/ c = "_" \/ c = "-"

\* the whole token matches \d+
IsDigits(t) == Len(t) > 0 /\ \A i \in 1..Len(t) : IsDigit(t[i])

\* the whole token matches \d+(?:\.\d+)?
IsNumberTok(t) ==
    \/ IsDigits(t)
    \/ \E k \in 2..(Len(t) - 1) :
          /\ t[k] = "."
          /\ IsDigits(SubSeq(t, 1, k - 1))
          /\ IsDigits(SubSeq(t, k + 1, Len(t)))

\* the whole token matches \d+/\d+
IsFractionTok(t) ==
    \E k \in 2..(Len(t) - 1) :
       /\ t[k] = "/"
       /\ IsDigits(SubSeq(t, 1, k - 1))
       /\ IsDigits(SubSeq(t, k + 1, Len(t)))

\* the whole token matches [\w-]+
IsWordTok(t) == Len(t) > 0 /\ \A i \in 1..Len(t) : IsWordChar(t[i])

RECURSIVE DigitsVal(_)
DigitsVal(t) ==
    IF t = <<>> THEN 0
    ELSE 10 * DigitsVal(SubSeq(t, 1, Len(t) - 1)) + (IndexOf(t[Len(t)], DigitChars) - 1)

RECURSIVE Pow10(_)
Pow10(k) == IF k = 0 THEN 1 ELSE 10 * Pow10(k - 1)

SplitAt(t, c) == CHOOSE k \in 1..Len(t) : t[k] = c

\* Decimal(s) of a token matching \d+(?:\.\d+)?
DecimalOf(t) ==
    IF IsDigits(t) THEN Rat(DigitsVal(t), 1)
    ELSE LET k == SplitAt(t, ".")
             f == SubSeq(t, k + 1, Len(t))
         IN  RatAdd(Rat(DigitsVal(SubSeq(t, 1, k - 1)), 1), Rat(DigitsVal(f), Pow10(Len(f))))

\* " ".join(tokens): the text of a run of tokens
RECURSIVE Join(_)
Join(ts) ==
    IF ts = <<>> THEN <<>>
    ELSE IF Len(ts) = 1 THEN ts[1]
    ELSE ts[1] \o <<" ">> \o Join(Tail(ts))

(***************************************************************************)
(* parse_recipe_ingredient (app/fridge/routes.py).                         *)
(***************************************************************************)
\* the Python value None returned for a blank line
NoParse == [ok |-> FALSE, qty |-> None, unit |-> None, name |-> <<>>]

\* variant: the unit group takes one word only
UnitCount_OneWord(ts, k) ==
    IF k + 1 <= Len(ts) /\ IsWordTok(ts[k]) THEN 1 ELSE 0

\* number of tokens taken by the optional group ([\w-]+(?:\s+[\w-]+)?)? when it
\* is tried at token k and must be followed by \s+ : greedy, two words first
UnitCount(ts, k) ==
    IF k + 2 <= Len(ts) /\ IsWordTok(ts[k]) /\ IsWordTok(ts[k + 1]) THEN 2
    ELSE IF k + 1 <= Len(ts) /\ IsWordTok(ts[k]) THEN 1
    ELSE 0

\* \s*(unit)?\s+(.*)$ matches behind a quantity group of q tokens
TailMatches(ts, q) ==
    IF q = 0 THEN UnitCount(ts, 1) > 0 ELSE q + 1 <= Len(ts)

\* number of tokens of the quantity group, the alternatives of
\* (\d+(?:\.\d+)?|\d+/\d+|\d+\s+\d+/\d+)? being tried from left to right and
\* the empty group last; -1 when the expression does not match the line
QtyCount(ts) ==
    IF IsNumberTok(ts[1]) /\ TailMatches(ts, 1) THEN 1
    ELSE IF IsFractionTok(ts[1]) /\ TailMatches(ts, 1) THEN 1
    ELSE IF Len(ts) >= 2 /\ IsDigits(ts[1]) /\ IsFractionTok(ts[2]) /\ TailMatches(ts, 2) THEN 2
    ELSE IF TailMatches(ts, 0) THEN 0
    ELSE 0 - 1

\* the second expression ^([\w-]+(?:\s+[\w-]+)?)\s+(.*)$ of the elif
UnitNameMatches(ts) == UnitCount(ts, 1) > 0

\* Decimal(a) / Decimal(b) of a token a/b; None when the division raises
FractionOf(t) ==
    LET k == SplitAt(t, "/")
        n == DigitsVal(SubSeq(t, 1, k - 1))
        d == DigitsVal(SubSeq(t, k + 1, Len(t)))
    IN  IF d = 0 THEN None ELSE Some(Rat(n, d))

\* the try block that converts qty_str; None when it raises
ParseQty(qs) ==
    IF Len(qs) = 2
    THEN LET f == FractionOf(qs[2])
         IN  IF IsNone(f) THEN None ELSE Some(RatAdd(DecimalOf(qs[1]), Val(f)))
    ELSE IF IsFractionTok(qs[1]) THEN FractionOf(qs[1])
    ELSE Some(DecimalOf(qs[1]))

Str_g == <<"g">>

Str_gram == <<"g","r","a","m">>

Str_grams == <<"g","r","a","m","s">>

Str_kg == <<"k","g">>

Str_kilogram == <<"k","i","l","o","g","r","a","m">>

Str_kilograms == <<"k","i","l","o","g","r","a","m","s">>

Str_ml == <<"m","l">>

Str_milliliter == <<"m","i","l","l","i","l","i","t","e","r">>

Str_milliliters == <<"m","i","l","l","i","l","i","t","e","r","s">>

Str_l == <<"l">>

Str_liter == <<"l","i","t","e","r">>

Str_liters == <<"l","i","t","e","r","s">>

\* variant: the table is looked up with the unit as written
NormalizeLower_CaseSensitive(unit, unit_lower) ==
    IF Val(unit) \in {Str_g, Str_gram, Str_grams} THEN Some(Str_g)
    ELSE IF Val(unit) \in {Str_kg, Str_kilogram, Str_kilograms} THEN Some(Str_kg)
    ELSE IF Val(unit) \in {Str_ml, Str_milliliter, Str_milliliters} THEN Some(Str_ml)
    ELSE IF Val(unit) \in {Str_l, Str_liter, Str_liters} THEN Some(Str_l)
    ELSE unit

\* the if/elif chain on unit_lower
NormalizeLower(unit, unit_lower) ==
    IF unit_lower \in {Str_g, Str_gram, Str_grams} THEN Some(Str_g)
    ELSE IF unit_lower \in {Str_kg, Str_kilogram, Str_kilograms} THEN Some(Str_kg)
    ELSE IF unit_lower \in {Str_ml, Str_milliliter, Str_milliliters} THEN Some(Str_ml)
    ELSE IF unit_lower \in {Str_l, Str_liter, Str_liters} THEN Some(Str_l)
    ELSE unit

\* "Clean up common unit variations"
NormalizeUnit(unit) ==
    IF IsNone(unit) \/ Val(unit) = <<>> THEN unit
    ELSE NormalizeLower(unit, Lower(Val(unit)))

\* variant: a quantity that cannot be converted makes the line unparsable
ParseGroups_FailedQuantityIsNone(ts, q, u) ==
    IF q > 0 /\ ParseQty(SubSeq(ts, 1, q)) = None THEN NoParse
    ELSE [ok |-> TRUE,
          qty |-> IF q > 0 THEN ParseQty(SubSeq(ts, 1, q)) ELSE None,
          unit |-> NormalizeUnit(IF u > 0 THEN Some(Join(SubSeq(ts, q + 1, q + u))) ELSE None),
          name |-> Lower(Join(SubSeq(ts, q + u + 1, Len(ts))))]

\* the groups of a match whose quantity group takes q tokens and whose unit
\* group takes u tokens
ParseGroups(ts, q, u) ==
    [ok |-> TRUE,
     qty |-> IF q > 0 THEN ParseQty(SubSeq(ts, 1, q)) ELSE None,
     unit |-> NormalizeUnit(IF u > 0 THEN Some(Join(SubSeq(ts, q + 1, q + u))) ELSE None),
     name |-> Lower(Join(SubSeq(ts, q + u + 1, Len(ts))))]

\* "if match: ... elif re.match(...): ..." for a quantity group of q tokens,
\* q = -1 standing for no match
ParseMatch(ts, q) ==
    IF q >= 0 THEN ParseGroups(ts, q, UnitCount(ts, q + 1))
    ELSE IF UnitNameMatches(ts) THEN ParseGroups(ts, 0, UnitCount(ts, 1))
    ELSE [ok |-> TRUE, qty |-> None, unit |-> None, name |-> Lower(Join(ts))]

\* variant: the line that is blank is its own name
parse_recipe_ingredient_BlankIsName(ts) ==
    IF ts = <<>> THEN [ok |-> TRUE, qty |-> None, unit |-> None, name |-> <<>>]
    ELSE ParseMatch(ts, QtyCount(ts))

\* parse_recipe_ingredient(line), the line given by its tokens
parse_recipe_ingredient(ts) ==
    IF ts = <<>> THEN NoParse ELSE ParseMatch(ts, QtyCount(ts))

(***************************************************************************)
(* The database tables and the request workers.                            *)
(***************************************************************************)
VARIABLES
    ingredients,   \* table ingredients (committed): id -> row
    recipes,       \* table recipes: id -> row (ingredients_text as lines)
    saved,         \* table user_saved_recipes (committed): set of <<user_id, recipe_id>>
    completed,     \* table user_completed_recipes (committed): set of <<user_id, recipe_id>>
    tx,            \* per worker: the uncommitted writes of its database transaction
    req,           \* per worker: the use_recipe request it is handling
    call,          \* the last call of another operation: its input and its result
    users,         \* table users (committed): id -> row
    sessions,      \* per browser: the id of the user logged in there, if any
    now            \* datetime.utcnow(), in seconds

vars == <<ingredients, recipes, saved, completed, tx, req, call, users, sessions, now>>

Browsers == {"a", "b"}

(***************************************************************************)
(* The model User: passwords and the lockout.                              *)
(***************************************************************************)
DEFAULT_PASSWORD_MIN_LENGTH == 8

DEFAULT_MAX_LOGIN_ATTEMPTS == 5

DEFAULT_LOGIN_LOCKOUT_TIME == 300

\* the checks of the password setter and of the form validator
PasswordAccepted(password) ==
    /\ Len(password) >= DEFAULT_PASSWORD_MIN_LENGTH
    /\ \E i \in 1..Len(password) : InSeq(password[i], UpperAlpha)
    /\ \E i \in 1..Len(password) : InSeq(password[i], LowerAlpha)
    /\ \E i \in 1..Len(password) : IsDigit(password[i])

\* the hash is not the password, and only the password it was made from
\* verifies against it
generate_password_hash(password) == <<"pbkdf2:">> \o password

check_password_hash(pwhash, password) == pwhash = generate_password_hash(password)

verify_password(user, password) == check_password_hash(user.password_hash, password)

\* User(username=..., email=...) with the column defaults, then the
\* password setter
User(username, email, password, is_admin, is_approved) ==
    [username |-> username,
     email |-> Lower(email),
     password_hash |-> generate_password_hash(password),
     is_admin |-> is_admin,
     is_approved |-> is_approved,
     login_attempts |-> 0,
     locked_until |-> None]

is_locked(user, utcnow) ==
    user.locked_until # None /\ user.locked_until[1] > utcnow

\* variant of increment_login_attempts: the lock is set only once the limit
\* is exceeded
increment_login_attempts_LocksPastLimit(user, utcnow) ==
    IF ~is_locked(user, utcnow)
    THEN [user EXCEPT
            !.login_attempts = @ + 1,
            !.locked_until =
                IF user.login_attempts + 1 > DEFAULT_MAX_LOGIN_ATTEMPTS
                THEN Some(utcnow + DEFAULT_LOGIN_LOCKOUT_TIME) ELSE @]
    ELSE user

increment_login_attempts(user, utcnow) ==
    IF ~is_locked(user, utcnow)
    THEN [user EXCEPT
            !.login_attempts = @ + 1,
            !.locked_until =
                IF user.login_attempts + 1 >= DEFAULT_MAX_LOGIN_ATTEMPTS
                THEN Some(utcnow + DEFAULT_LOGIN_LOCKOUT_TIME) ELSE @]
    ELSE user

reset_login_attempts(user) ==
    [user EXCEPT !.login_attempts = 0, !.locked_until = None]

W_admin == <<"a","d","m","i","n">>

W_user == <<"u","s","e","r">>

E_admin == W_admin \o <<"@","s","m","a","r","t","f","r","i","d","g","e",".","c","o","m">>

\* "User@x.io": stored and looked up in lower case
E_User == <<"U","s","e","r","@","x",".","i","o">>

PW_Secret == <<"S","e","c","r","e","t","1","2","3">>

PW_Other == <<"O","t","h","e","r","4","5","6","7">>

\* too short, no upper case letter, no digit
PW_guess == <<"g","u","e","s","s">>

\* the administrator that the application creates when it starts
AdminUser == User(W_admin, E_admin, PW_Secret, TRUE, TRUE)

\* the administrator is the only account, and is logged in in one browser
AdminSignedIn ==
    /\ users = (1 :> AdminUser)
    /\ sessions = [c \in Browsers |-> IF c = "a" THEN Some(1) ELSE None]
    /\ now = 0

\* no call has been made
NoCall == [fn |-> "", input |-> <<>>, output |-> <<>>, done |-> TRUE]

Procs == {1, 2}

\* the user who is logged in and sends the requests
LoggedIn == {1}

RecipeIds == {1}

\* a transaction that has written nothing
NoTx == [flushed |-> FALSE, locked |-> {}, saved_deleted |-> {}, completed_inserted |-> {}]

\* a worker that handles no request
Idle == [pc |-> "idle", user |-> 0, recipe |-> 0, outcome |-> "", raised_at |-> "",
         snapshot |-> <<>>, fridge_ingredients |-> <<>>,
         required_items |-> <<>>, parsing_errors |-> <<>>,
         deductions |-> <<>>, missing_ingredients |-> <<>>, unit_mismatches |-> <<>>,
         objs |-> <<>>, deleted |-> {}, dirty |-> {},
         unsave_pending |-> FALSE, has_completed |-> FALSE]

\* Python truth value of an Optional string: None and '' are false
Truthy(o) == ~IsNone(o) /\ Val(o) # <<>>

(***************************************************************************)
(* use_recipe, step 1: parse recipe.ingredients_text.                      *)
(***************************************************************************)
\* variant: a blank line is reported as not understood
AddLine_BlankIsError(acc, line, i, parsed) ==
    IF parsed.ok /\ parsed.name # <<>>
    THEN [acc EXCEPT !.required_items =
             Append(@, [name |-> parsed.name, qty |-> parsed.qty, unit |-> parsed.unit,
                        original_line |-> line, line_no |-> i])]
    ELSE [acc EXCEPT !.parsing_errors = Append(@, line)]

\* the body of "for line in ...": parsed is the value of parse_recipe_ingredient
AddLine(acc, line, i, parsed) ==
    IF parsed.ok /\ parsed.name # <<>>
    THEN [acc EXCEPT !.required_items =
             Append(@, [name |-> parsed.name, qty |-> parsed.qty, unit |-> parsed.unit,
                        original_line |-> line, line_no |-> i])]
    ELSE IF parsed.ok \/ line # <<>>
    THEN [acc EXCEPT !.parsing_errors = Append(@, line)]
    ELSE acc

\* the loop over the lines of the text, from line i on
RECURSIVE ParseLines(_, _, _)
ParseLines(acc, text, i) ==
    IF i > Len(text) THEN acc
    ELSE ParseLines(AddLine(acc, text[i], i, parse_recipe_ingredient(text[i])), text, i + 1)

\* required_items and parsing_errors after step 1
ParseText(text) == ParseLines([required_items |-> <<>>, parsing_errors |-> <<>>], text, 1)

(***************************************************************************)
(* use_recipe, step 2: check availability and prepare deductions.          *)
(***************************************************************************)
\* current_user.ingredients.all(): the rows of the user
RowsOf(tbl, u) == {id \in DOMAIN tbl : tbl[id].user_id = u}

\* the dictionaries {ing.name.lower(): ing} that the comprehension can build:
\* of several rows with the same lowercased name the one delivered last by the
\* query stays, and the query has no ORDER BY
FridgeDicts(tbl, u) ==
    LET names == {Lower(tbl[id].name) : id \in RowsOf(tbl, u)}
    IN  {f \in [names -> RowsOf(tbl, u)] : \A n \in names : Lower(tbl[f[n]].name) = n}

\* "Allow if units match OR if recipe unit is None OR if fridge unit is None"
UnitsAllow(req_unit, fridge_unit) ==
    \/ IsNone(req_unit)
    \/ ~Truthy(fridge_unit)
    \/ Lower(Val(req_unit)) = Lower(Val(fridge_unit))

\* variant: the weight field is tried before the quantity field
DeductFrom_WeightFirst(item, row) ==
    IF /\ ~IsNone(row.weight)
       /\ UnitsAllow(item.unit, row.weight_unit)
       /\ RatGeq(Val(row.weight), Val(item.qty))
    THEN Some("weight")
    ELSE IF /\ ~IsNone(row.quantity)
            /\ UnitsAllow(item.unit, row.unit)
            /\ RatGeq(Val(row.quantity), Val(item.qty))
    THEN Some("quantity")
    ELSE None

\* the field chosen by Priority 1 and Priority 2; None when can_deduct stays False
DeductFrom(item, row) ==
    IF /\ ~IsNone(row.quantity)
       /\ UnitsAllow(item.unit, row.unit)
       /\ RatGeq(Val(row.quantity), Val(item.qty))
    THEN Some("quantity")
    ELSE IF /\ ~IsNone(row.weight)
            /\ UnitsAllow(item.unit, row.weight_unit)
            /\ RatGeq(Val(row.weight), Val(item.qty))
    THEN Some("weight")
    ELSE None

\* variant: only the quantity field is examined for a conflict of units
UnitMismatch_QuantityOnly(item, row) ==
    /\ ~IsNone(row.quantity) /\ ~IsNone(item.unit) /\ Truthy(row.unit)
    /\ Lower(Val(item.unit)) # Lower(Val(row.unit))

\* the flag unit_mismatch computed when can_deduct is False
UnitMismatch(item, row) ==
    \/ /\ ~IsNone(row.quantity) /\ ~IsNone(item.unit) /\ Truthy(row.unit)
       /\ Lower(Val(item.unit)) # Lower(Val(row.unit))
    \/ /\ ~IsNone(row.weight) /\ ~IsNone(item.unit) /\ Truthy(row.weight_unit)
       /\ Lower(Val(item.unit)) # Lower(Val(row.weight_unit))

\* variant: a line without quantity is never looked up
NotInFridge_QtyOnly(item, fridge) == item.name \notin DOMAIN fridge /\ ~IsNone(item.qty)

\* "if not fridge_match" for fridge_match = fridge_ingredients.get(req_name)
NotInFridge(item, fridge) == item.name \notin DOMAIN fridge

\* variant: an item the matched record cannot cover is reported as missing
CheckQuantified_ReportsShortage(acc, item, id, row) ==
    LET from == DeductFrom(item, row)
    IN  IF ~IsNone(from)
        THEN [acc EXCEPT !.deductions =
                 Append(@, [ingredient_obj |-> id, deduct_amount |-> Val(item.qty),
                            deduct_from |-> Val(from), line_no |-> item.line_no])]
        ELSE IF UnitMismatch(item, row)
        THEN [acc EXCEPT !.unit_mismatches = Append(@, item.original_line)]
        ELSE [acc EXCEPT !.missing_ingredients = Append(@, item.original_line)]

\* the body of "if req_qty is not None" and the append to deductions after it
CheckQuantified(acc, item, id, row) ==
    LET from == DeductFrom(item, row)
    IN  IF ~IsNone(from)
        THEN [acc EXCEPT !.deductions =
                 Append(@, [ingredient_obj |-> id, deduct_amount |-> Val(item.qty),
                            deduct_from |-> Val(from), line_no |-> item.line_no])]
        ELSE IF UnitMismatch(item, row)
        THEN [acc EXCEPT !.unit_mismatches = Append(@, item.original_line)]
        ELSE acc

\* variant: a matched item without quantity is reported as a unit mismatch
CheckItem_NoQuantityReported(acc, item, tbl, fridge) ==
    IF NotInFridge(item, fridge)
    THEN [acc EXCEPT !.missing_ingredients = Append(@, item.original_line)]
    ELSE IF IsNone(item.qty)
    THEN [acc EXCEPT !.unit_mismatches = Append(@, item.original_line)]
    ELSE CheckQuantified(acc, item, fridge[item.name], tbl[fridge[item.name]])

\* one iteration of "for item in required_items"
CheckItem(acc, item, tbl, fridge) ==
    IF NotInFridge(item, fridge)
    THEN [acc EXCEPT !.missing_ingredients = Append(@, item.original_line)]
    ELSE IF IsNone(item.qty) THEN acc
    ELSE CheckQuantified(acc, item, fridge[item.name], tbl[fridge[item.name]])

RECURSIVE CheckItems(_, _, _, _, _)
CheckItems(acc, items, i, tbl, fridge) ==
    IF i > Len(items) THEN acc
    ELSE CheckItems(CheckItem(acc, items[i], tbl, fridge), items, i + 1, tbl, fridge)

\* variant: only the missing ingredients stop the deduction
ChecksPassed_MissingOnly(chk) == chk.missing_ingredients = <<>>

\* "if not missing_ingredients and not unit_mismatches"
ChecksPassed(chk) == chk.missing_ingredients = <<>> /\ chk.unit_mismatches = <<>>

CheckAvailability(items, tbl, fridge) ==
    CheckItems([deductions |-> <<>>, missing_ingredients |-> <<>>, unit_mismatches |-> <<>>],
               items, 1, tbl, fridge)

(***************************************************************************)
(* use_recipe, step 3: the deduction loop on the objects of the session.   *)
(***************************************************************************)
\* db.session.delete(ing): the object is marked for deletion at the next flush
SessionDelete(deleted, id) == deleted \cup {id}

\* db.session.add(ing) of a persistent object: it stays in the session, and a
\* deletion that is pending for it is cancelled
SessionAdd(deleted, id) == deleted \ {id}

\* variant: the amount is also taken from the other field of the record
ApplyDeduction_BothFields(sess, ded) ==
    LET id == ded.ingredient_obj
        field == ded.deduct_from
        other == IF field = "quantity" THEN "weight" ELSE "quantity"
        ing == sess.objs[id]
        left == RatSub(Val(ing[field]), ded.deduct_amount)
    IN  [objs |-> [sess.objs EXCEPT ![id] =
                      [ing EXCEPT ![field] = Some(left),
                                  ![other] = IF ing[other] = None THEN None
                                             ELSE Some(RatSub(Val(ing[other]), ded.deduct_amount))]],
         deleted |-> IF RatLeqZero(left) THEN SessionDelete(sess.deleted, id)
                     ELSE SessionAdd(sess.deleted, id),
         dirty |-> sess.dirty \cup {<<id, field>>, <<id, other>>}]

\* one iteration of "for ded in deductions"
ApplyDeduction(sess, ded) ==
    LET id == ded.ingredient_obj
        field == ded.deduct_from
        ing == sess.objs[id]
        left == RatSub(Val(ing[field]), ded.deduct_amount)
    IN  [objs |-> [sess.objs EXCEPT ![id] = [ing EXCEPT ![field] = Some(left)]],
         deleted |-> IF RatLeqZero(left) THEN SessionDelete(sess.deleted, id)
                     ELSE SessionAdd(sess.deleted, id),
         dirty |-> sess.dirty \cup {<<id, field>>}]

RECURSIVE ApplyDeductions(_, _, _)
ApplyDeductions(sess, deds, i) ==
    IF i > Len(deds) THEN sess
    ELSE ApplyDeductions(ApplyDeduction(sess, deds[i]), deds, i + 1)

(***************************************************************************)
(* The unit of work of the session against the database.  The database     *)
(* locks the rows a transaction has written until it commits or rolls back; *)
(* a statement that meets a row locked by another transaction waits; a     *)
(* read returns the committed rows.                                        *)
(***************************************************************************)
\* the ingredient rows the flush of the session writes
Touched(r) == {e[1] : e \in r.dirty} \cup r.deleted

RowLocked(p, ids) == \E q \in Procs \ {p} : tx[q].locked \cap ids # {}

SavedLocked(p, key) == \E q \in Procs \ {p} : key \in tx[q].saved_deleted

CompletedLocked(p, key) == \E q \in Procs \ {p} : key \in tx[q].completed_inserted

\* an UPDATE of the flush finds no row: StaleDataError
FlushStale(tbl, r) ==
    \E e \in r.dirty : e[1] \notin r.deleted /\ e[1] \notin DOMAIN tbl

\* the table after the UPDATE and DELETE statements of the flush: an UPDATE
\* writes the changed columns of a row, a DELETE that finds no row only warns
FlushIngredients(tbl, r) ==
    [id \in DOMAIN tbl \ r.deleted |->
        [f \in DOMAIN tbl[id] |->
            IF <<id, f>> \in r.dirty THEN r.objs[id][f] ELSE tbl[id][f]]]

(***************************************************************************)
(* The use_recipe request, one action per stretch of the handler between   *)
(* two accesses to the database.                                           *)
(***************************************************************************)
\* variant: the writes of the failed request stay in the transaction
Rollback_KeepsWrites(t) == t

\* db.session.rollback() of the except branch: the writes are discarded
Rollback(t) == NoTx

Finished(r, outcome) == [r EXCEPT !.pc = "done", !.outcome = outcome]

\* the except branch, lines 506-510
Raised(r) == [r EXCEPT !.pc = "done", !.outcome = "error", !.raised_at = r.pc]

\* the request after step 1
Started(u, rid, parsed) ==
    [Idle EXCEPT !.user = u, !.recipe = rid,
                 !.required_items = parsed.required_items,
                 !.parsing_errors = parsed.parsing_errors]

\* the request after step 2
Planned(r, fridge, chk) ==
    [r EXCEPT !.snapshot = [id \in RowsOf(ingredients, r.user) |-> ingredients[id]],
              !.fridge_ingredients = fridge,
              !.deductions = chk.deductions,
              !.missing_ingredients = chk.missing_ingredients,
              !.unit_mismatches = chk.unit_mismatches]

\* the request after the deduction loop
Deducted(r, sess) ==
    [r EXCEPT !.pc = "deducted", !.objs = sess.objs,
              !.deleted = sess.deleted, !.dirty = sess.dirty]

\* lines 467-491 and 511-519: refuse, or run the deduction loop on the objects
\* of the session
UseRecipeDeduct(p, r) ==
    IF ChecksPassed(r)
    THEN req' = [req EXCEPT ![p] =
                   Deducted(r, ApplyDeductions([objs |-> r.snapshot, deleted |-> {}, dirty |-> {}],
                                               r.deductions, 1))]
    ELSE req' = [req EXCEPT ![p] = Finished(r, "rejected")]

\* lines 389-464: stop on a text that was not understood, else read the fridge
\* and plan the deductions
UseRecipePlan(p, r) ==
    IF r.parsing_errors # <<>> \/ r.required_items = <<>>
    THEN req' = [req EXCEPT ![p] = Finished(r, "skipped")]
    ELSE \E fridge \in FridgeDicts(ingredients, r.user) :
            UseRecipeDeduct(p, Planned(r, fridge,
                                       CheckAvailability(r.required_items, ingredients, fridge)))

\* lines 368-491 and 511-519, up to the first statement sent to the database
UseRecipeCheck(p, u, rid) ==
    /\ req[p].pc \in {"idle", "done"}
    /\ UseRecipePlan(p, Started(u, rid, ParseText(recipes[rid].ingredients_text)))
    /\ UNCHANGED <<ingredients, recipes, saved, completed, tx>>

\* line 494, current_user.unsave_recipe(recipe): the query of has_saved_recipe
\* flushes the session first, then the recipe is removed from saved_recipes
UseRecipeUnsave(p) ==
    /\ req[p].pc = "deducted"
    /\ LET r == req[p]
           key == <<r.user, r.recipe>>
       IN  /\ ~RowLocked(p, Touched(r))
           /\ IF FlushStale(ingredients, r)
              THEN /\ tx' = [tx EXCEPT ![p] = Rollback(@)]
                   /\ req' = [req EXCEPT ![p] = Raised(r)]
              ELSE /\ tx' = [tx EXCEPT ![p].flushed = TRUE,
                                       ![p].locked = Touched(r) \cap DOMAIN ingredients]
                   /\ req' = [req EXCEPT ![p] =
                                [r EXCEPT !.pc = "unsaved", !.unsave_pending = key \in saved]]
    /\ UNCHANGED <<ingredients, recipes, saved, completed>>

\* line 495, current_user.complete_recipe(recipe), first half: the query of
\* has_completed_recipe flushes the removal from user_saved_recipes first
UseRecipeHasCompleted(p) ==
    /\ req[p].pc = "unsaved"
    /\ LET r == req[p]
           key == <<r.user, r.recipe>>
       IN  IF r.unsave_pending
           THEN /\ ~SavedLocked(p, key)
                /\ IF key \notin saved
                   THEN /\ tx' = [tx EXCEPT ![p] = Rollback(@)]
                        /\ req' = [req EXCEPT ![p] = Raised(r)]
                   ELSE /\ tx' = [tx EXCEPT ![p].saved_deleted = {key}]
                        /\ req' = [req EXCEPT ![p] =
                                     [r EXCEPT !.pc = "completing",
                                               !.has_completed = key \in completed]]
           ELSE /\ tx' = tx
                /\ req' = [req EXCEPT ![p] =
                             [r EXCEPT !.pc = "completing", !.has_completed = key \in completed]]
    /\ UNCHANGED <<ingredients, recipes, saved, completed>>

\* line 495, second half: the INSERT into user_completed_recipes, whose primary
\* key is (user_id, recipe_id)
UseRecipeMarkCompleted(p) ==
    /\ req[p].pc = "completing"
    /\ LET r == req[p]
           key == <<r.user, r.recipe>>
       IN  IF r.has_completed
           THEN /\ tx' = tx
                /\ req' = [req EXCEPT ![p] = [r EXCEPT !.pc = "completed"]]
           ELSE /\ ~CompletedLocked(p, key)
                /\ IF key \in completed
                   THEN /\ tx' = [tx EXCEPT ![p] = Rollback(@)]
                        /\ req' = [req EXCEPT ![p] = Raised(r)]
                   ELSE /\ tx' = [tx EXCEPT ![p].completed_inserted = {key}]
                        /\ req' = [req EXCEPT ![p] = [r EXCEPT !.pc = "completed"]]
    /\ UNCHANGED <<ingredients, recipes, saved, completed>>

\* the tables after the commit of the writes of a transaction
Committed(t, r) ==
    [ingredients |-> IF t.flushed THEN FlushIngredients(ingredients, r) ELSE ingredients,
     saved |-> saved \ t.saved_deleted,
     completed |-> completed \cup t.completed_inserted]

\* line 498, db.session.commit()
UseRecipeCommit(p) ==
    /\ req[p].pc = "completed"
    /\ ingredients' = Committed(tx[p], req[p]).ingredients
    /\ saved' = Committed(tx[p], req[p]).saved
    /\ completed' = Committed(tx[p], req[p]).completed
    /\ tx' = [tx EXCEPT ![p] = NoTx]
    /\ req' = [req EXCEPT ![p] = Finished(req[p], "success")]
    /\ UNCHANGED recipes

(***************************************************************************)
(* Initial states: the rows the tables hold when the requests arrive.      *)
(***************************************************************************)
W_flour == <<"f","l","o","u","r">>

W_Flour == <<"F","l","o","u","r">>

W_egg == <<"e","g","g">>

W_Egg == <<"E","g","g">>

W_cups == <<"c","u","p","s">>

W_Cups == <<"C","u","p","s">>

T_1 == <<"1">>

T_2 == <<"2">>

T_1_0 == <<"1","/","0">>

\* the lines a recipe text is made of
LinePool ==
    { <<T_2, W_cups, W_Flour>>,     \* "2 cups Flour"
      <<T_1, W_flour>>,             \* "1 flour"
      <<T_1, Str_kg, W_flour>>,     \* "1 kg flour"
      <<W_Flour>>,                  \* "Flour"
      <<T_1_0, W_cups, W_Egg>>,     \* "1/0 cups Egg"
      <<T_1, W_egg>> }              \* "1 egg"

\* the lines of ingredients_text.strip().split('\n'): the first and the last
\* line are not blank, unless the text is blank and gives one empty line
Texts ==
    {t \in UNION {[1..n -> LinePool \cup {<<>>}] : n \in 1..MaxLines} :
        Len(t) = 1 \/ (t[1] # <<>> /\ t[Len(t)] # <<>>)}

Row(name, quantity, unit, weight, weight_unit, user_id) ==
    [name |-> name, quantity |-> quantity, unit |-> unit,
     weight |-> weight, weight_unit |-> weight_unit, user_id |-> user_id]

Amts == {Some(Rat(k, 1)) : k \in 1..MaxAmt}

\* the quantity and unit of a row, and its weight and weight_unit
QuantityParts ==
    {<<None, None>>} \cup (Amts \X {Some(<<>>), Some(W_Cups), Some(Str_kg), Some(Str_kilograms)})

WeightParts ==
    {<<None, None>>} \cup (Amts \X {None, Some(Str_kg)})

\* rows "Flour" of user 1 with a quantity, a weight, or both
FlourRows ==
    {Row(W_Flour, qu[1], qu[2], ww[1], ww[2], 1) :
        qu \in QuantityParts, ww \in WeightParts} \
    {Row(W_Flour, None, None, None, None, 1)}

\* a second row of user 1: none, an egg, or another row named flour
SecondRows ==
    { <<>>,
      <<Row(W_egg, Some(Rat(1, 1)), None, None, None, 1)>>,
      <<Row(W_flour, Some(Rat(MaxAmt, 1)), Some(W_cups), None, None, 1)>> }

\* the row of another user
OtherRow == Row(W_flour, Some(Rat(MaxAmt, 1)), None, None, None, 2)

Table(r1, r2) ==
    IF r2 = <<>> THEN (1 :> r1) @@ (3 :> OtherRow)
    ELSE (1 :> r1) @@ (2 :> r2[1]) @@ (3 :> OtherRow)

Inventories == {Table(r1, r2) : r1 \in FlourRows, r2 \in SecondRows}

Init ==
    /\ ingredients \in Inventories
    /\ recipes \in [RecipeIds -> {[ingredients_text |-> t] : t \in Texts}]
    /\ saved = {<<1, 1>>}
    /\ completed = {}
    /\ tx = [p \in Procs |-> NoTx]
    /\ req = [p \in Procs |-> Idle]
    /\ call = NoCall
    /\ AdminSignedIn

\* the steps of the request worker p
Step(p) ==
    /\ \/ \E rid \in RecipeIds : \E u \in LoggedIn : UseRecipeCheck(p, u, rid)
       \/ UseRecipeUnsave(p)
       \/ UseRecipeHasCompleted(p)
       \/ UseRecipeMarkCompleted(p)
       \/ UseRecipeCommit(p)
    /\ UNCHANGED <<call, users, sessions, now>>

\* one worker: the requests are handled one after the other
Next == Step(1)

Spec == Init /\ [][Next]_vars

(***************************************************************************)
(* Two workers: the requests of the user are handled concurrently, each in *)
(* its own session.                                                        *)
(***************************************************************************)
ConcLinePool ==
    { <<T_2, W_cups, W_Flour>>,     \* "2 cups Flour"
      <<T_1, W_flour>>,             \* "1 flour"
      <<W_Flour>> }                 \* "Flour"

ConcTexts == UNION {[1..n -> ConcLinePool] : n \in 1..MaxLines}

ConcSecondRows ==
    { <<>>, <<Row(W_flour, Some(Rat(MaxAmt, 1)), Some(W_cups), None, None, 1)>> }

ConcInventories ==
    {Table(Row(W_Flour, q, u, None, None, 1), r2) :
        q \in Amts, u \in {None, Some(W_Cups)}, r2 \in ConcSecondRows}

InitConc ==
    /\ ingredients \in ConcInventories
    /\ recipes \in [RecipeIds -> {[ingredients_text |-> t] : t \in ConcTexts}]
    /\ saved \in {{}, {<<1, 1>>}}
    /\ completed = {}
    /\ tx = [p \in Procs |-> NoTx]
    /\ req = [p \in Procs |-> Idle]
    /\ call = NoCall
    /\ AdminSignedIn

NextConc == \E p \in Procs : Step(p)

SpecConc == InitConc /\ [][NextConc]_vars

(***************************************************************************)
(* Properties.                                                             *)
(***************************************************************************)
\* the plan entries produced for the required item of line i
EntriesOf(r, i) == {k \in DOMAIN r.deductions : r.deductions[k].line_no = i}

\* the required items of the request r for which the fridge has been consulted
ItemsOf(r) ==
    IF r.pc = "idle" \/ r.outcome = "skipped" THEN {}
    ELSE {r.required_items[i] : i \in DOMAIN r.required_items}

\* an Optional unit is null or the empty string
NullOrEmpty(u) == u = None \/ u = Some(<<>>)

\* a field of a record is unit-eligible for an item and holds enough
Qualifies(item, amount, unit) ==
    /\ amount # None
    /\ (item.unit = None \/ NullOrEmpty(unit) \/ Lower(Val(item.unit)) = Lower(Val(unit)))
    /\ RatGeq(Val(amount), Val(item.qty))

\* a field of a record is set and carries a unit that differs from the item's
Conflicts(item, amount, unit) ==
    /\ amount # None /\ item.unit # None /\ ~NullOrEmpty(unit)
    /\ Lower(Val(item.unit)) # Lower(Val(unit))

\* C1: a request that found a missing ingredient or a unit mismatch ends as
\* rejected, and the step that finds them changes no ingredient row, no saved
\* recipe and no completed recipe, and writes nothing in a transaction
C1_RejectedLeavesAllUntouched ==
    [][\A p \in Procs :
          (req'[p] # req[p] /\ (req'[p].missing_ingredients # <<>> \/ req'[p].unit_mismatches # <<>>))
          => /\ req'[p].pc = "done" /\ req'[p].outcome = "rejected"
             /\ ingredients' = ingredients /\ saved' = saved /\ completed' = completed
             /\ tx' = tx]_vars

\* a rejected request one of whose other items was deductible, for a saved recipe
C1_Witness ==
    \E p \in Procs :
       /\ req[p].outcome = "rejected" /\ req[p].deductions # <<>>
       /\ <<req[p].user, req[p].recipe>> \in saved

\* C2: every required item with a quantity that got no plan entry has an error
\* recorded in missing or unit_mismatches, and the request deducts nothing
C2_AllOrNothingAcrossItems ==
    \A p \in Procs : \A item \in ItemsOf(req[p]) :
       (item.qty # None /\ EntriesOf(req[p], item.line_no) = {})
       => /\ \/ InSeq(item.original_line, req[p].missing_ingredients)
             \/ InSeq(item.original_line, req[p].unit_mismatches)
          /\ req[p].outcome = "rejected"

\* the value of a field of record id after the first k entries of the plan
RECURSIVE FieldAfter(_, _, _, _)
FieldAfter(r, id, field, k) ==
    IF k = 0 THEN Val(r.snapshot[id][field])
    ELSE IF r.deductions[k].ingredient_obj = id /\ r.deductions[k].deduct_from = field
    THEN RatSub(FieldAfter(r, id, field, k - 1), r.deductions[k].deduct_amount)
    ELSE FieldAfter(r, id, field, k - 1)

\* C3: after a successful request, a record one of whose plan entries left
\* zero or less in the targeted field is deleted, and a surviving targeted
\* record holds the old value minus the deducted amounts, which is positive
C3_DepletedRecordIsDeleted ==
    \A p \in Procs : req[p].outcome = "success" =>
       \A k \in DOMAIN req[p].deductions :
          LET d == req[p].deductions[k]
              id == d.ingredient_obj
          IN  /\ RatLeqZero(FieldAfter(req[p], id, d.deduct_from, k)) => id \notin DOMAIN ingredients
              /\ id \in DOMAIN ingredients =>
                    /\ ingredients[id][d.deduct_from] =
                          Some(FieldAfter(req[p], id, d.deduct_from, Len(req[p].deductions)))
                    /\ ~RatLeqZero(Val(ingredients[id][d.deduct_from]))

\* C4: for a required item with a quantity and a matched record there is at
\* most one plan entry, on the matched record and of the required amount; it
\* targets quantity exactly when the quantity field qualifies, and weight
\* exactly when the quantity field does not qualify and the weight field does
C4_QuantityFieldFirst ==
    \A p \in Procs : \A item \in ItemsOf(req[p]) :
       (item.qty # None /\ item.name \in DOMAIN req[p].fridge_ingredients) =>
          LET r == req[p]
              id == r.fridge_ingredients[item.name]
              row == r.snapshot[id]
              es == {r.deductions[k] : k \in EntriesOf(r, item.line_no)}
              q == Qualifies(item, row.quantity, row.unit)
              w == Qualifies(item, row.weight, row.weight_unit)
          IN  /\ Cardinality(EntriesOf(r, item.line_no)) <= 1
              /\ \A e \in es : e.ingredient_obj = id /\ e.deduct_amount = Val(item.qty)
              /\ (\E e \in es : e.deduct_from = "quantity") <=> q
              /\ (\E e \in es : e.deduct_from = "weight") <=> (~q /\ w)

\* an entry on the quantity field of a record whose weight field qualifies too
C4_Witness ==
    \E p \in Procs : \E item \in ItemsOf(req[p]) :
       /\ item.qty # None /\ item.name \in DOMAIN req[p].fridge_ingredients
       /\ LET r == req[p]
              row == r.snapshot[r.fridge_ingredients[item.name]]
          IN  /\ Qualifies(item, row.quantity, row.unit)
              /\ Qualifies(item, row.weight, row.weight_unit)
              /\ \E k \in EntriesOf(r, item.line_no) : r.deductions[k].deduct_from = "quantity"

\* C5: a required item with a quantity is in unit_mismatches exactly when a
\* record matches its name, it got no plan entry, its unit is not null and the
\* quantity field or the weight field of the record is set with a non-empty
\* unit that differs, ignoring case, from the required unit
C5_UnitMismatchExactly ==
    \A p \in Procs : \A item \in ItemsOf(req[p]) :
       item.qty # None =>
          LET r == req[p]
              named == item.name \in DOMAIN r.fridge_ingredients
              row == r.snapshot[r.fridge_ingredients[item.name]]
          IN  InSeq(item.original_line, r.unit_mismatches)
              <=> /\ named
                  /\ EntriesOf(r, item.line_no) = {}
                  /\ item.unit # None
                  /\ \/ Conflicts(item, row.quantity, row.unit)
                     \/ Conflicts(item, row.weight, row.weight_unit)

\* flour 1 kg in the fridge, 2 cups required: reported as a unit mismatch
C5_Witness ==
    \E p \in Procs : \E item \in ItemsOf(req[p]) :
       /\ item.qty = Some(Rat(2, 1)) /\ item.unit = Some(W_cups) /\ item.name = W_flour
       /\ item.name \in DOMAIN req[p].fridge_ingredients
       /\ LET row == req[p].snapshot[req[p].fridge_ingredients[item.name]]
          IN  row.quantity = Some(Rat(1, 1)) /\ row.unit = Some(Str_kg)
       /\ InSeq(item.original_line, req[p].unit_mismatches)

\* C6: a required item whose name equals the lowercased name of no record of
\* the user is added to missing with its original line and gets no plan entry
C6_UnknownNameIsMissing ==
    \A p \in Procs : \A item \in ItemsOf(req[p]) :
       (\A id \in DOMAIN req[p].snapshot : Lower(req[p].snapshot[id].name) # item.name)
       => /\ InSeq(item.original_line, req[p].missing_ingredients)
          /\ EntriesOf(req[p], item.line_no) = {}

\* an item without quantity, and of a name no record has, reported as missing
C6_Witness ==
    \E p \in Procs : \E item \in ItemsOf(req[p]) :
       /\ item.qty = None
       /\ \A id \in DOMAIN req[p].snapshot : Lower(req[p].snapshot[id].name) # item.name
       /\ InSeq(item.original_line, req[p].missing_ingredients)

\* a required item with a quantity and a matched record none of whose fields
\* is eligible and sufficient, and none of whose fields conflicts in its unit
UnderStocked(r, item) ==
    /\ item.qty # None /\ item.name \in DOMAIN r.fridge_ingredients
    /\ LET row == r.snapshot[r.fridge_ingredients[item.name]]
       IN  /\ ~Qualifies(item, row.quantity, row.unit)
           /\ ~Qualifies(item, row.weight, row.weight_unit)
           /\ ~Conflicts(item, row.quantity, row.unit)
           /\ ~Conflicts(item, row.weight, row.weight_unit)

\* every entry of the plan of r has been applied to the stored records
PlanApplied(r, tbl) ==
    \A k \in DOMAIN r.deductions :
       LET d == r.deductions[k]
       IN  \/ d.ingredient_obj \notin DOMAIN tbl
           \/ tbl[d.ingredient_obj][d.deduct_from] =
                 Some(FieldAfter(r, d.ingredient_obj, d.deduct_from, Len(r.deductions)))

\* the stored record id is the one the request r has read
Unchanged(r, id) == id \in DOMAIN ingredients /\ ingredients[id] = r.snapshot[id]

\* an under-stocked item gets no entry and no error, and the request, when
\* nothing is missing or mismatched, succeeds with the other items deducted
\* and the recipe completed
SilentlyDropped(r, item) ==
    /\ EntriesOf(r, item.line_no) = {}
    /\ ~InSeq(item.original_line, r.missing_ingredients)
    /\ ~InSeq(item.original_line, r.unit_mismatches)
    /\ (r.missing_ingredients = <<>> /\ r.unit_mismatches = <<>> /\ r.pc = "done")
       => /\ r.outcome = "success"
          /\ <<r.user, r.recipe>> \in completed
          /\ PlanApplied(r, ingredients)

C8_NoQuantityRecordUnchanged ==
    \A p \in Procs : \A item \in ItemsOf(req[p]) :
       (item.qty = None /\ item.name \in DOMAIN req[p].fridge_ingredients) =>
          /\ EntriesOf(req[p], item.line_no) = {}
          /\ ~InSeq(item.original_line, req[p].missing_ingredients)
          /\ ~InSeq(item.original_line, req[p].unit_mismatches)
          /\ Unchanged(req[p], req[p].fridge_ingredients[item.name])

\* C8: a matched item without quantity gets no entry and no error, and the
\* matched record is left unchanged when no entry of the plan, produced by
\* another line of the recipe, targets it
C8_NoQuantityContributesNothing ==
    \A p \in Procs : \A item \in ItemsOf(req[p]) :
       (item.qty = None /\ item.name \in DOMAIN req[p].fridge_ingredients) =>
          /\ EntriesOf(req[p], item.line_no) = {}
          /\ ~InSeq(item.original_line, req[p].missing_ingredients)
          /\ ~InSeq(item.original_line, req[p].unit_mismatches)
          /\ (\A k \in DOMAIN req[p].deductions :
                 req[p].deductions[k].ingredient_obj # req[p].fridge_ingredients[item.name])
             => Unchanged(req[p], req[p].fridge_ingredients[item.name])

\* a successful request with a matched line whose quantity failed to parse,
\* next to a line that was deducted
C8_Witness ==
    \E p \in Procs : \E item \in ItemsOf(req[p]) :
       /\ item.qty = None /\ item.unit # None
       /\ item.name \in DOMAIN req[p].fridge_ingredients
       /\ req[p].outcome = "success" /\ req[p].deductions # <<>>
       /\ Unchanged(req[p], req[p].fridge_ingredients[item.name])

\* C9: the step that commits a request stores every entry of its plan, the
\* removal from the saved recipes and the completion together; a step that
\* raises leaves the stored tables as they are and discards the writes of the
\* request; and the stored tables change in no other step
C9_CommittedTogetherOrNotAtAll ==
    [][/\ \A p \in Procs :
             LET r == req[p]
                 key == <<r.user, r.recipe>>
             IN  /\ (r.pc \notin {"idle", "done"} /\ req'[p].pc = "done" /\ req'[p].outcome = "success")
                    => /\ key \notin saved' /\ key \in completed'
                       /\ PlanApplied(r, ingredients')
                       /\ tx'[p] = NoTx
                 /\ (r.pc \notin {"idle", "done"} /\ req'[p].pc = "done" /\ req'[p].outcome = "error")
                    => /\ ingredients' = ingredients /\ saved' = saved /\ completed' = completed
                       /\ tx'[p] = NoTx
       /\ (ingredients' # ingredients \/ saved' # saved \/ completed' # completed)
          => \E p \in Procs : req[p].pc = "completed" /\ req'[p].outcome = "success"]_vars

\* a request rolled back after its deductions had been flushed
C9_Witness ==
    \E p \in Procs :
       /\ req[p].outcome = "error" /\ req[p].raised_at \in {"unsaved", "completing"}
       /\ req[p].dirty # {} /\ tx[p] = NoTx
       /\ \A e \in req[p].dirty : Unchanged(req[p], e[1])

\* C10: a request that commits finds, in every field its plan targets, the
\* amount the plan was computed from: a deduction committed by a concurrent
\* request in between has been taken into account
C10_ConcurrentUsesSerialized ==
    [][\A p \in Procs :
          (req[p].pc = "completed" /\ req'[p].outcome = "success") =>
             \A k \in DOMAIN req[p].deductions :
                LET d == req[p].deductions[k]
                IN  /\ d.ingredient_obj \in DOMAIN ingredients
                    /\ ingredients[d.ingredient_obj][d.deduct_from] =
                          req[p].snapshot[d.ingredient_obj][d.deduct_from]]_vars

\* the amount and the unit of a field of a record
AmountOf(row, f) == IF f = "quantity" THEN row.quantity ELSE row.weight

UnitOf(row, f) == IF f = "quantity" THEN row.unit ELSE row.weight_unit

\* the field f of the record is set and its unit, once normalized, is the
\* required unit
SynonymUnit(item, row, f) ==
    /\ AmountOf(row, f) # None /\ item.unit # None /\ ~NullOrEmpty(UnitOf(row, f))
    /\ Lower(Val(NormalizeUnit(UnitOf(row, f)))) = Lower(Val(item.unit))

\* the field f of the record is set and its unit, once normalized, differs
\* from the required unit
NormalizedConflict(item, row, f) ==
    /\ AmountOf(row, f) # None /\ item.unit # None /\ ~NullOrEmpty(UnitOf(row, f))
    /\ Lower(Val(NormalizeUnit(UnitOf(row, f)))) # Lower(Val(item.unit))

\* C11: a field of the matched record whose unit is a synonym of the required
\* unit is eligible, so that the item gets a plan entry when the field holds
\* enough, and the item is not reported as a unit mismatch unless the other
\* field conflicts
C11_SynonymUnitsEligible ==
    \A p \in Procs : \A item \in ItemsOf(req[p]) :
       (item.qty # None /\ item.name \in DOMAIN req[p].fridge_ingredients) =>
          LET r == req[p]
              row == r.snapshot[r.fridge_ingredients[item.name]]
          IN  \A f \in {"quantity", "weight"} :
                 SynonymUnit(item, row, f) =>
                    /\ RatGeq(Val(AmountOf(row, f)), Val(item.qty))
                       => EntriesOf(r, item.line_no) # {}
                    /\ (\A g \in {"quantity", "weight"} : ~NormalizedConflict(item, row, g))
                       => ~InSeq(item.original_line, r.unit_mismatches)

(***************************************************************************)
(* The add-ingredient form: IngredientForm (app/forms.py) and the POST     *)
(* branch of index (app/fridge/routes.py).  A form is the record of the    *)
(* texts typed in its inputs.                                              *)
(***************************************************************************)
MaxRows == 2

MAX_INGREDIENT_NAME_LENGTH == 100

MAX_UNIT_LENGTH == 50

\* str.strip() for blanks
RECURSIVE Strip(_)
Strip(s) ==
    IF s = <<>> THEN s
    ELSE IF Head(s) = " " THEN Strip(Tail(s))
    ELSE IF s[Len(s)] = " " THEN Strip(SubSeq(s, 1, Len(s) - 1))
    ELSE s

\* FloatField.process_formdata: float(text), None when it raises; the texts
\* considered are digits with an optional fraction part, or not numbers
FloatData(raw) == IF IsNumberTok(raw) THEN Some(DecimalOf(raw)) ELSE None

\* wtforms Optional(): an input that is empty or blank ends the chain of
\* validators of the field and clears its errors
OptionalStops(raw) == Strip(raw) = <<>>

\* "not form.<field>.data" for the value of a FloatField
NoData(o) == IsNone(o) \/ Val(o)[1] = 0

\* either_quantity_or_weight raises ValidationError
either_quantity_or_weight(form) ==
    NoData(FloatData(form.quantity)) /\ NoData(FloatData(form.weight))

\* quantity = FloatField(validators=[Optional(), either_quantity_or_weight])
QuantityValid(form) ==
    \/ OptionalStops(form.quantity)
    \/ ~IsNone(FloatData(form.quantity)) /\ ~either_quantity_or_weight(form)

\* form.validate() of IngredientForm
IngredientFormValid(form) ==
    /\ Strip(form.name) # <<>> /\ Len(form.name) <= MAX_INGREDIENT_NAME_LENGTH
    /\ QuantityValid(form)
    /\ OptionalStops(form.unit) \/ Len(form.unit) <= MAX_UNIT_LENGTH
    /\ OptionalStops(form.weight) \/ ~IsNone(FloatData(form.weight))
    /\ OptionalStops(form.weight_unit) \/ Len(form.weight_unit) <= MAX_UNIT_LENGTH

\* Ingredient(name=form.name.data, ...): validate_name strips the name
NewIngredient(form, u) ==
    Row(Strip(form.name), FloatData(form.quantity), Some(form.unit),
        FloatData(form.weight), Some(form.weight_unit), u)

\* the primary key given to a new row
NextId(tbl) == IF DOMAIN tbl = {} THEN 1 ELSE 1 + CHOOSE i \in DOMAIN tbl : \A j \in DOMAIN tbl : j <= i

\* POST /: lines 18-38 of index
IndexPost(u, form) ==
    /\ Cardinality(DOMAIN ingredients) < MaxRows
    /\ IF IngredientFormValid(form)
       THEN /\ ingredients' = ingredients @@ (NextId(ingredients) :> NewIngredient(form, u))
            /\ call' = [fn |-> "index", input |-> form, output |-> "added", done |-> TRUE]
       ELSE /\ ingredients' = ingredients
            /\ call' = [fn |-> "index", input |-> form, output |-> "invalid", done |-> TRUE]
    /\ UNCHANGED <<recipes, saved, completed, tx, req, users, sessions, now>>

T_0 == <<"0">>

T_x == <<"x">>

\* the submissions considered
Forms ==
    [name : {<<>>, W_Flour, <<" ">> \o W_egg},
     quantity : {<<>>, T_0, T_1, T_x},
     unit : {<<>>, W_cups},
     weight : {<<>>, T_0, T_2},
     weight_unit : {<<>>}]

InitForms ==
    /\ ingredients = <<>>
    /\ recipes = [rid \in RecipeIds |-> [ingredients_text |-> <<>>]]
    /\ saved = {}
    /\ completed = {}
    /\ tx = [p \in Procs |-> NoTx]
    /\ req = [p \in Procs |-> Idle]
    /\ call = NoCall
    /\ AdminSignedIn

NextForms == \E u \in LoggedIn : \E form \in Forms : IndexPost(u, form)

SpecForms == InitForms /\ [][NextForms]_vars

\* C12: every record created through the form has a quantity or a weight, and
\* a submission whose quantity and weight inputs are both empty is refused
C12_QuantityOrWeightRequired ==
    /\ \A id \in DOMAIN ingredients :
          ~(IsNone(ingredients[id].quantity) /\ IsNone(ingredients[id].weight))
    /\ (call.fn = "index" /\ call.input.quantity = <<>> /\ call.input.weight = <<>>)
       => call.output = "invalid"

(***************************************************************************)
(* RecipeParser (app/recipe_generator.py).  A response is the sequence of  *)
(* its lines, each a string.                                               *)
(***************************************************************************)
\* str.startswith
StartsWith(s, prefix) == Len(s) >= Len(prefix) /\ SubSeq(s, 1, Len(prefix)) = prefix

Str_title == <<"#", "#", " ">>

Str_ingredients == <<"#", "#", "#", " ", "i", "n", "g", "r", "e", "d", "i", "e", "n", "t", "s">>

Str_instructions == <<"#", "#", "#", " ", "i", "n", "s", "t", "r", "u", "c", "t", "i", "o", "n", "s">>

Str_star == <<"*", " ">>

Str_dash == <<"-", " ">>

\* line.split('.', 1)[-1] of a line that holds a full stop
AfterStop(line) == SubSeq(line, SplitAt(line, ".") + 1, Len(line))

\* _parse_ingredient_line
parse_ingredient_line(line) ==
    IF StartsWith(line, Str_star) \/ StartsWith(line, Str_dash)
    THEN Some(Strip(SubSeq(line, 3, Len(line))))
    ELSE IF Len(line) > 1 THEN Some(line)
    ELSE None

\* _parse_instruction_line
parse_instruction_line(line) ==
    IF StartsWith(line, Str_star) \/ StartsWith(line, Str_dash)
    THEN Some(Strip(SubSeq(line, 3, Len(line))))
    ELSE IF Len(line) >= 2 /\ IsDigit(line[1]) /\ line[2] = "."
    THEN Some(Strip(AfterStop(line)))
    ELSE IF Len(line) > 1 THEN Some(line)
    ELSE None

\* variant: the instructions are not looked at
validate_recipe_NoInstructions(recipe) ==
    recipe.title # <<>> /\ recipe.ingredients # <<>>

\* _validate_recipe returns the recipe
validate_recipe(recipe) ==
    recipe.title # <<>> /\ recipe.ingredients # <<>> /\ recipe.instructions # <<>>

\* the state of the loop before the first line
MdStart == [recipes |-> <<>>, current_recipe |-> None, current_section |-> ""]

\* variant: an invalid recipe empties the list of the recipes returned
MdClose_InvalidDropsAll(st) ==
    IF IsNone(st.current_recipe) THEN st.recipes
    ELSE IF validate_recipe(Val(st.current_recipe)) THEN Append(st.recipes, Val(st.current_recipe))
    ELSE <<>>

\* "if current_recipe: ... recipes.append(validated_recipe)"
MdClose(st) ==
    IF ~IsNone(st.current_recipe) /\ validate_recipe(Val(st.current_recipe))
    THEN Append(st.recipes, Val(st.current_recipe))
    ELSE st.recipes

\* lines 82-89: the parsed entry, when truthy, is appended to the list of the
\* current section
MdContent(st, entry) ==
    IF st.current_section = "" \/ IsNone(entry) \/ Val(entry) = <<>> THEN st
    ELSE [st EXCEPT !.current_recipe = Some([Val(@) EXCEPT ![st.current_section] = Append(@, Val(entry))])]

\* variant: a title line keeps the current section
MdLine_TitleKeepsSection(st, line) ==
    IF line = <<>> THEN st
    ELSE IF StartsWith(line, Str_title)
    THEN [recipes |-> MdClose(st),
          current_recipe |-> Some([title |-> Strip(SubSeq(line, 4, Len(line))),
                                   ingredients |-> <<>>, instructions |-> <<>>]),
          current_section |-> st.current_section]
    ELSE IF IsNone(st.current_recipe) THEN st
    ELSE IF StartsWith(Lower(line), Str_ingredients) THEN [st EXCEPT !.current_section = "ingredients"]
    ELSE IF StartsWith(Lower(line), Str_instructions) THEN [st EXCEPT !.current_section = "instructions"]
    ELSE IF st.current_section = "ingredients" THEN MdContent(st, parse_ingredient_line(line))
    ELSE MdContent(st, parse_instruction_line(line))

\* the body of the loop for a line that has been stripped
MdLine(st, line) ==
    IF line = <<>> THEN st
    ELSE IF StartsWith(line, Str_title)
    THEN [recipes |-> MdClose(st),
          current_recipe |-> Some([title |-> Strip(SubSeq(line, 4, Len(line))),
                                   ingredients |-> <<>>, instructions |-> <<>>]),
          current_section |-> ""]
    ELSE IF IsNone(st.current_recipe) THEN st
    ELSE IF StartsWith(Lower(line), Str_ingredients) THEN [st EXCEPT !.current_section = "ingredients"]
    ELSE IF StartsWith(Lower(line), Str_instructions) THEN [st EXCEPT !.current_section = "instructions"]
    ELSE IF st.current_section = "ingredients" THEN MdContent(st, parse_ingredient_line(line))
    ELSE MdContent(st, parse_instruction_line(line))

RECURSIVE MdLoop(_, _, _)
MdLoop(st, text, i) ==
    IF i > Len(text) THEN st ELSE MdLoop(MdLine(st, Strip(text[i])), text, i + 1)

\* parse_markdown_recipes(raw_response)
parse_markdown_recipes(text) == MdClose(MdLoop(MdStart, text, 1))

\* the recipe tables are empty and no request is being handled
NoRequests ==
    /\ ingredients = <<>>
    /\ recipes = [rid \in RecipeIds |-> [ingredients_text |-> <<>>]]
    /\ saved = {}
    /\ completed = {}
    /\ tx = [p \in Procs |-> NoTx]
    /\ req = [p \in Procs |-> Idle]
    /\ AdminSignedIn

\* a call of fn that has not been made yet
Pending(fn, input) == [fn |-> fn, input |-> input, output |-> <<>>, done |-> FALSE]

MaxBlocks == 2

L_title_A == <<"#", "#", " ", "A">>

L_title_B == <<" ", " ", "#", "#", " ", "B">>

L_ingredients == <<"#", "#", "#", " ", "I", "n", "g", "r", "e", "d", "i", "e", "n", "t", "s", ":">>

L_instructions == <<"#", "#", "#", " ", "I", "N", "S", "T", "R", "U", "C", "T", "I", "O", "N", "S">>

L_star_salt == <<"*", " ", "s", "a", "l", "t">>

L_x == <<"x">>

L_1_mix == <<"1", ".", " ", "M", "i", "x">>

L_10_bake == <<"1", "0", ".", " ", "B", "a", "k", "e">>

L_egg == <<" ", "e", "g", "g">>

\* runs of lines: nothing, an ingredients section, an instructions section
MdSegments ==
    { <<>>,
      <<L_ingredients, L_star_salt, L_x>>,
      <<L_instructions, L_1_mix, L_10_bake>> }

\* lines under no header: none, or a content line and a blank line
MdLoose == { <<>>, <<L_egg, <<>>>> }

\* the lines before a title: loose lines and a run of lines; the block of the
\* title A: loose lines and two runs of lines; the block of the title B: two
\* runs of lines
MdBlocks ==
    {l \o a : l \in MdLoose, a \in MdSegments}
       \cup {<<L_title_A>> \o l \o a \o b : l \in MdLoose, a \in MdSegments, b \in MdSegments}
       \cup {<<L_title_B>> \o a \o b : a \in MdSegments, b \in MdSegments}

RECURSIVE MdTextsOf(_)
MdTextsOf(n) ==
    IF n = 0 THEN {<<>>}
    ELSE MdTextsOf(n - 1) \cup {x \o b : x \in MdTextsOf(n - 1), b \in MdBlocks}

MdTexts == MdTextsOf(MaxBlocks)

\* RecipeParser().parse_markdown_recipes(text)
CallParseMarkdown ==
    /\ call.fn = "parse_markdown_recipes" /\ ~call.done
    /\ call' = [call EXCEPT !.output = parse_markdown_recipes(call.input), !.done = TRUE]
    /\ UNCHANGED <<ingredients, recipes, saved, completed, tx, req, users, sessions, now>>

InitMarkdown == NoRequests /\ call \in {Pending("parse_markdown_recipes", t) : t \in MdTexts}

NextMarkdown == CallParseMarkdown

SpecMarkdown == InitMarkdown /\ [][NextMarkdown]_vars

\* the results of the calls of parse_markdown_recipes that have been made
MdDone == call.fn = "parse_markdown_recipes" /\ call.done

\* C13: every recipe returned by parse_markdown_recipes has a non-empty
\* title, at least one ingredient and at least one instruction
C13_ReturnedRecipesValid ==
    MdDone => \A k \in DOMAIN call.output :
                 /\ call.output[k].title # <<>>
                 /\ Len(call.output[k].ingredients) >= 1
                 /\ Len(call.output[k].instructions) >= 1

\* the title lines of a text
TitleLines(text) == {i \in DOMAIN text : StartsWith(Strip(text[i]), Str_title)}

\* a text of two titles whose first block is returned and whose second block,
\* which ends the input without any entry, is not
C13_Witness ==
    /\ MdDone /\ Len(call.output) = 1
    /\ Cardinality(TitleLines(call.input)) = 2
    /\ Len(call.input) \in TitleLines(call.input)

\* the last line of the block that the title line i starts
BlockEnd(text, i) ==
    IF \E j \in TitleLines(text) : j > i
    THEN (CHOOSE j \in TitleLines(text) : j > i /\ \A k \in TitleLines(text) : k > i => j <= k) - 1
    ELSE Len(text)

\* the block that the title line i starts
BlockAt(text, i) == SubSeq(text, i, BlockEnd(text, i))

\* the recipes of the blocks of the text from line i on, each block parsed on
\* its own
RECURSIVE BlockRecipes(_, _)
BlockRecipes(text, i) ==
    IF i > Len(text) THEN <<>>
    ELSE IF i \in TitleLines(text)
    THEN parse_markdown_recipes(BlockAt(text, i)) \o BlockRecipes(text, i + 1)
    ELSE BlockRecipes(text, i + 1)

\* C14: the recipes returned are, in the order of the input, what each block
\* started by a title line yields when parsed on its own, which is one recipe
\* for a block with an ingredient and an instruction and nothing otherwise
C14_BlocksParsedIndependently ==
    MdDone =>
       /\ call.output = BlockRecipes(call.input, 1)
       /\ \A i \in TitleLines(call.input) :
             LET one == parse_markdown_recipes(BlockAt(call.input, i))
             IN  /\ Len(one) <= 1
                 /\ Len(one) = 1 <=> (\E st \in {MdLoop(MdStart, BlockAt(call.input, i), 1)} :
                                         /\ Val(st.current_recipe).ingredients # <<>>
                                         /\ Val(st.current_recipe).instructions # <<>>)

\* a block with ingredients and no instructions, followed by a well-formed
\* block, which alone is returned
C14_Witness ==
    /\ MdDone /\ Len(call.output) = 1
    /\ Cardinality(TitleLines(call.input)) = 2
    /\ \E i \in TitleLines(call.input) :
          /\ \A j \in TitleLines(call.input) : i <= j
          /\ parse_markdown_recipes(BlockAt(call.input, i)) = <<>>
          /\ \E k \in i..BlockEnd(call.input, i) : call.input[k] = L_ingredients
          /\ \A k \in i..BlockEnd(call.input, i) : call.input[k] # L_instructions

\* the line is a section header of the given kind
IsHeader(line, kind) ==
    StartsWith(Lower(Strip(line)), IF kind = "ingredients" THEN Str_ingredients ELSE Str_instructions)

\* the line k of a block lies under a header of the given kind: a header of
\* that kind precedes it and no header lies in between
Under(block, k, kind) ==
    \E h \in 2..(k - 1) :
       /\ IsHeader(block[h], kind)
       /\ \A j \in (h + 1)..(k - 1) :
             ~IsHeader(block[j], "ingredients") /\ ~IsHeader(block[j], "instructions")

\* the entry a content line gives to the list of the given kind
EntryOf(line, kind) ==
    IF kind = "ingredients" THEN parse_ingredient_line(Strip(line))
    ELSE parse_instruction_line(Strip(line))

\* the entries of the lines k.. of a block that lie under a header of the
\* given kind, in the order of the lines
RECURSIVE EntriesUnder(_, _, _)
EntriesUnder(block, k, kind) ==
    IF k > Len(block) THEN <<>>
    ELSE IF /\ Under(block, k, kind)
            /\ ~IsHeader(block[k], "ingredients") /\ ~IsHeader(block[k], "instructions")
            /\ Strip(block[k]) # <<>>
            /\ EntryOf(block[k], kind) \notin {None, Some(<<>>)}
    THEN <<Val(EntryOf(block[k], kind))>> \o EntriesUnder(block, k + 1, kind)
    ELSE EntriesUnder(block, k + 1, kind)

\* C15: the lines before the first title are ignored, and the recipe that a
\* title line starts collects, in each of its two lists, exactly the entries
\* of the lines of its block that follow a header of that list with no other
\* header in between; lines between the title and the first header give none
C15_EntriesFollowTitleAndHeader ==
    MdDone =>
       /\ \A i \in TitleLines(call.input) :
             \E st \in {MdLoop(MdStart, SubSeq(call.input, 1, BlockEnd(call.input, i)), 1)} :
                /\ Val(st.current_recipe).title = Strip(SubSeq(Strip(call.input[i]), 4, Len(Strip(call.input[i]))))
                /\ Val(st.current_recipe).ingredients =
                      EntriesUnder(BlockAt(call.input, i), 2, "ingredients")
                /\ Val(st.current_recipe).instructions =
                      EntriesUnder(BlockAt(call.input, i), 2, "instructions")
       /\ TitleLines(call.input) = {} => call.output = <<>>

\* a text that opens with content and a section before any title, and whose
\* second block has content between its title and its first header, and is
\* returned
C15_Witness ==
    /\ MdDone /\ Len(call.output) = 1
    /\ Len(call.input) >= 2 /\ call.input[1] = L_egg /\ call.input[3] = L_ingredients
    /\ \E i \in TitleLines(call.input) : call.input[i + 1] = L_egg

\* the number of digits the line starts with, counted from position k
RECURSIVE DigitRun(_, _)
DigitRun(line, k) ==
    IF k <= Len(line) /\ IsDigit(line[k]) THEN 1 + DigitRun(line, k + 1) ELSE 0

\* the line starts with a step number and a full stop
HasOrdinal(line) ==
    /\ DigitRun(line, 1) >= 1
    /\ Len(line) > DigitRun(line, 1)
    /\ line[DigitRun(line, 1) + 1] = "."

\* a content line without its leading bullet marker (ingredients) or its
\* leading ordinal marker (instructions)
WithoutMarker(line, kind) ==
    IF kind = "ingredients"
    THEN IF StartsWith(line, Str_star) \/ StartsWith(line, Str_dash)
         THEN Strip(SubSeq(line, 3, Len(line))) ELSE line
    ELSE IF HasOrdinal(line)
         THEN Strip(SubSeq(line, DigitRun(line, 1) + 2, Len(line))) ELSE line

\* one entry, marker removed, for every non-blank line of the lines k.. of a
\* block that is no header and lies under a header of the given kind
RECURSIVE LinesUnder(_, _, _)
LinesUnder(block, k, kind) ==
    IF k > Len(block) THEN <<>>
    ELSE IF /\ Under(block, k, kind)
            /\ ~IsHeader(block[k], "ingredients") /\ ~IsHeader(block[k], "instructions")
            /\ Strip(block[k]) # <<>>
    THEN <<WithoutMarker(Strip(block[k]), kind)>> \o LinesUnder(block, k + 1, kind)
    ELSE LinesUnder(block, k + 1, kind)

\* C16: inside a section every non-blank line that is no title and no header
\* is appended to the list of the section, an ingredient line without its
\* leading bullet marker and an instruction line without its leading ordinal
\* marker, whatever the step number
C16_EveryLineAppendedWithoutMarker ==
    MdDone =>
       \A i \in TitleLines(call.input) :
          \E st \in {MdLoop(MdStart, SubSeq(call.input, 1, BlockEnd(call.input, i)), 1)} :
             /\ Val(st.current_recipe).ingredients =
                   LinesUnder(BlockAt(call.input, i), 2, "ingredients")
             /\ Val(st.current_recipe).instructions =
                   LinesUnder(BlockAt(call.input, i), 2, "instructions")

(***************************************************************************)
(* parse_quantity_string and fetch_product_info (app/utils.py).            *)
(***************************************************************************)
\* [a-zA-Z]
IsAlpha(c) == InSeq(c, UpperAlpha) \/ InSeq(c, LowerAlpha)

\* the number of blanks the text has from position k on
RECURSIVE BlankRun(_, _)
BlankRun(s, k) ==
    IF k <= Len(s) /\ s[k] = " " THEN 1 + BlankRun(s, k + 1) ELSE 0

\* ([a-zA-Z]+)$ matches at position k
AlphaFrom(s, k) == k <= Len(s) /\ \A i \in k..Len(s) : IsAlpha(s[i])

\* where the unit group starts behind a number group that ends at e: \s*
UnitStart(s, e) == e + 1 + BlankRun(s, e + 1)

\* the end of the group (\d+(?:\.\d+)?) at the start of the text
NumberEnd(s) ==
    IF /\ Len(s) >= DigitRun(s, 1) + 2
       /\ s[DigitRun(s, 1) + 1] = "."
       /\ DigitRun(s, DigitRun(s, 1) + 2) >= 1
    THEN DigitRun(s, 1) + 1 + DigitRun(s, DigitRun(s, 1) + 2)
    ELSE DigitRun(s, 1)

\* QUANTITY_PATTERN matches the text
QuantityMatches(s) ==
    DigitRun(s, 1) >= 1 /\ AlphaFrom(s, UnitStart(s, NumberEnd(s)))

\* the end of (\d+)/(\d+) tried at position k, 0 when it does not match
FractionEnd(s, k) ==
    IF /\ DigitRun(s, k) >= 1
       /\ k + DigitRun(s, k) <= Len(s)
       /\ s[k + DigitRun(s, k)] = "/"
       /\ DigitRun(s, k + DigitRun(s, k) + 1) >= 1
    THEN k + DigitRun(s, k) + DigitRun(s, k + DigitRun(s, k) + 1)
    ELSE 0

\* float() of the groups of (\d+)/(\d+) matched at position k
Numerator(s, k) == DigitsVal(SubSeq(s, k, k + DigitRun(s, k) - 1))

Denominator(s, k) == DigitsVal(SubSeq(s, k + DigitRun(s, k) + 1, FractionEnd(s, k)))

\* FRACTION_PATTERN matches the text
FractionMatches(s) ==
    FractionEnd(s, 1) > 0 /\ AlphaFrom(s, UnitStart(s, FractionEnd(s, 1)))

\* where the fraction of MIXED_NUMBER_PATTERN starts: behind (\d+)\s+
MixedStart(s) == DigitRun(s, 1) + BlankRun(s, DigitRun(s, 1) + 1) + 1

\* MIXED_NUMBER_PATTERN matches the text
MixedMatches(s) ==
    /\ DigitRun(s, 1) >= 1
    /\ BlankRun(s, DigitRun(s, 1) + 1) >= 1
    /\ FractionEnd(s, MixedStart(s)) > 0
    /\ AlphaFrom(s, UnitStart(s, FractionEnd(s, MixedStart(s))))

\* the group of the unit, lowercased
UnitFrom(s, k) == Lower(SubSeq(s, k, Len(s)))

\* "return None, None"
NoQuantity == <<None, None>>

\* variant: the whole part of a mixed number is not added
TryMixed_FractionOnly(s) ==
    IF MixedMatches(s) /\ Denominator(s, MixedStart(s)) # 0
    THEN <<Some(Rat(Numerator(s, MixedStart(s)), Denominator(s, MixedStart(s)))),
           Some(UnitFrom(s, UnitStart(s, FractionEnd(s, MixedStart(s)))))>>
    ELSE NoQuantity

\* the third pattern; a division by zero is caught and nothing is returned
TryMixed(s) ==
    IF MixedMatches(s) /\ Denominator(s, MixedStart(s)) # 0
    THEN <<Some(RatAdd(Rat(DigitsVal(SubSeq(s, 1, DigitRun(s, 1))), 1),
                       Rat(Numerator(s, MixedStart(s)), Denominator(s, MixedStart(s))))),
           Some(UnitFrom(s, UnitStart(s, FractionEnd(s, MixedStart(s)))))>>
    ELSE NoQuantity

\* variant: a zero denominator gives no amount, the unit is returned
TryFraction_NullAmountOnly(s) ==
    IF FractionMatches(s)
    THEN IF Denominator(s, 1) = 0
         THEN <<None, Some(UnitFrom(s, UnitStart(s, FractionEnd(s, 1))))>>
         ELSE <<Some(Rat(Numerator(s, 1), Denominator(s, 1))),
                Some(UnitFrom(s, UnitStart(s, FractionEnd(s, 1))))>>
    ELSE TryMixed(s)

\* the second pattern; a division by zero is caught and the next pattern tried
TryFraction(s) ==
    IF FractionMatches(s) /\ Denominator(s, 1) # 0
    THEN <<Some(Rat(Numerator(s, 1), Denominator(s, 1))),
           Some(UnitFrom(s, UnitStart(s, FractionEnd(s, 1))))>>
    ELSE TryMixed(s)

\* the first pattern
TryQuantity(s) ==
    IF QuantityMatches(s)
    THEN <<Some(DecimalOf(SubSeq(s, 1, NumberEnd(s)))),
           Some(UnitFrom(s, UnitStart(s, NumberEnd(s))))>>
    ELSE TryFraction(s)

\* parse_quantity_string(quantity_str); the argument is given by its Python
\* type and, for a string, its text
parse_quantity_string(v) ==
    IF v.type # "str" \/ v.value = <<>> THEN NoQuantity
    ELSE TryQuantity(Strip(v.value))

\* the value None of a field of the product
PyNone == [type |-> "NoneType", value |-> <<>>]

\* the dictionary built from the product: the quantity is kept unless it is
\* None or '', and parsed when it is a string
ProductInfo(q, parsed) ==
    [quantity |-> IF q = PyNone \/ (q.type = "str" /\ q.value = <<>>) THEN None ELSE Some(q),
     parsed_quantity |-> parsed[1],
     parsed_unit |-> IF IsNone(parsed[2]) \/ Val(parsed[2]) = <<>> THEN None ELSE parsed[2]]

\* fetch_product_info for the answer of the product database: no product, or
\* a product with its quantity field
fetch_product_info(product) ==
    IF IsNone(product) THEN None
    ELSE IF Val(product).quantity.type = "str" /\ Val(product).quantity.value # <<>>
    THEN Some(ProductInfo(Val(product).quantity, parse_quantity_string(Val(product).quantity)))
    ELSE Some(ProductInfo(Val(product).quantity, NoQuantity))

\* the words of a line: the runs of characters between blanks
RECURSIVE Tokens(_)
Tokens(line) ==
    IF Strip(line) = <<>> THEN <<>>
    ELSE IF InSeq(" ", Strip(line))
    THEN <<SubSeq(Strip(line), 1, SplitAt(Strip(line), " ") - 1)>>
         \o Tokens(SubSeq(Strip(line), SplitAt(Strip(line), " ") + 1, Len(Strip(line))))
    ELSE <<Strip(line)>>

T_500 == <<"5", "0", "0">>

T_1_5 == <<"1", ".", "5">>

T_1_2 == <<"1", "/", "2">>

T_2_0 == <<"2", "/", "0">>

T_1_stop == <<"1", ".">>

W_cup == <<"c", "u", "p">>

W_Cup == <<"C", "u", "p">>

W_Liters == <<"L", "i", "t", "e", "r", "s">>

W_g2 == <<"g", "2">>

W_Grams == <<"G", "r", "a", "m", "s">>

MaxBlanks == 2

Blanks(n) == [i \in 1..n |-> " "]

QuantityWholes == { <<>>, T_1, T_x }

QuantityNumbers == { <<>>, T_500, T_1_5, T_1_2, T_2_0, T_1_stop }

QuantityWords == { <<>>, Str_g, Str_grams, W_cup, W_Cup, W_cups, W_Liters, W_g2 }

QuantityTexts ==
    {w \o Blanks(a) \o n \o Blanks(b) \o u :
        w \in QuantityWholes, n \in QuantityNumbers, u \in QuantityWords,
        a \in 0..MaxBlanks, b \in 0..MaxBlanks}

\* the values of the quantity field: a text, None, or the number 500
QuantityValues ==
    {[type |-> "str", value |-> t] : t \in QuantityTexts}
       \cup {PyNone, [type |-> "int", value |-> T_500]}

Products == {None} \cup {Some([quantity |-> q]) : q \in QuantityValues}

RecipeQuantities == { <<>>, <<T_1>>, <<T_2>>, <<T_1_5>>, <<T_1_2>>, <<T_1, T_1_2>>, <<T_2_0>> }

W_Olive == <<"O", "l", "i", "v", "e">>

W_oil == <<"o", "i", "l">>

W_LITERS == <<"L", "I", "T", "E", "R", "S">>

RecipeUnits == { <<>>, <<W_cups>>, <<W_Cups>>, <<W_Grams>>, <<Str_kg>>, <<W_LITERS>>, <<Str_milliliter>> }

RecipeNames == { <<>>, <<W_Flour>>, <<W_Egg>>, <<W_Olive, W_oil>> }

\* the words of a line set apart by n blanks
RECURSIVE Spaced(_, _)
Spaced(ts, n) ==
    IF ts = <<>> THEN <<>>
    ELSE IF Len(ts) = 1 THEN ts[1]
    ELSE ts[1] \o Blanks(n) \o Spaced(Tail(ts), n)

\* lines of words one blank apart, with blanks before and behind
RecipeLines ==
    {Blanks(a) \o Spaced(q \o u \o n, 1) \o Blanks(b) :
        q \in RecipeQuantities, u \in RecipeUnits, n \in RecipeNames,
        a \in 0..MaxBlanks, b \in 0..MaxBlanks}

CallParseQuantity ==
    /\ call.fn = "parse_quantity_string" /\ ~call.done
    /\ call' = [call EXCEPT !.output = parse_quantity_string(call.input), !.done = TRUE]
    /\ UNCHANGED <<ingredients, recipes, saved, completed, tx, req, users, sessions, now>>

CallFetchProductInfo ==
    /\ call.fn = "fetch_product_info" /\ ~call.done
    /\ call' = [call EXCEPT !.output = fetch_product_info(call.input), !.done = TRUE]
    /\ UNCHANGED <<ingredients, recipes, saved, completed, tx, req, users, sessions, now>>

CallParseRecipeIngredient ==
    /\ call.fn = "parse_recipe_ingredient" /\ ~call.done
    /\ call' = [call EXCEPT !.output = parse_recipe_ingredient(Tokens(call.input)), !.done = TRUE]
    /\ UNCHANGED <<ingredients, recipes, saved, completed, tx, req, users, sessions, now>>

InitParsers ==
    /\ NoRequests
    /\ call \in {Pending("parse_quantity_string", v) : v \in QuantityValues}
          \cup {Pending("fetch_product_info", p) : p \in Products}
          \cup {Pending("parse_recipe_ingredient", l) : l \in RecipeLines}

NextParsers == CallParseQuantity \/ CallFetchProductInfo \/ CallParseRecipeIngredient

SpecParsers == InitParsers /\ [][NextParsers]_vars

\* the calls of parse_quantity_string that have been made
QtyDone == call.fn = "parse_quantity_string" /\ call.done

IsAlphaWord(w) == Len(w) > 0 /\ \A i \in 1..Len(w) : IsAlpha(w[i])

AllBlank(t, a, b) == \A k \in a..b : t[k] = " "

\* the ways to read a text as a head t[1..i], blanks and a word t[j+1..]
Splits(t) ==
    {x \in (1..Len(t)) \X (1..Len(t)) :
        /\ x[1] <= x[2] /\ x[2] < Len(t)
        /\ AllBlank(t, x[1] + 1, x[2])
        /\ IsAlphaWord(SubSeq(t, x[2] + 1, Len(t)))}

\* number, blanks, word
QuantityForms(t) == {x \in Splits(t) : IsNumberTok(SubSeq(t, 1, x[1]))}

\* a/b, blanks, word
FractionForms(t) == {x \in Splits(t) : IsFractionTok(SubSeq(t, 1, x[1]))}

\* w, at least one blank, a/b from position f, blanks, word
MixedForms(t) ==
    {y \in (1..Len(t)) \X (1..Len(t)) \X Splits(t) :
        /\ y[1] + 1 < y[2] /\ y[2] <= y[3][1]
        /\ IsDigits(SubSeq(t, 1, y[1]))
        /\ AllBlank(t, y[1] + 1, y[2] - 1)
        /\ IsFractionTok(SubSeq(t, y[2], y[3][1]))}

\* the unit word of a reading, as the result gives it
WordOf(t, x, lowered) ==
    IF lowered THEN Lower(SubSeq(t, x[2] + 1, Len(t))) ELSE SubSeq(t, x[2] + 1, Len(t))

\* the result out of the text t is the one the three patterns give, the unit
\* of the two fraction patterns being lowercased or left as written
QuantityAsRead(t, out, lowered) ==
    /\ \A x \in QuantityForms(t) :
          out = <<Some(DecimalOf(SubSeq(t, 1, x[1]))), Some(WordOf(t, x, TRUE))>>
    /\ \A x \in FractionForms(t) :
          FractionOf(SubSeq(t, 1, x[1])) # None =>
             out = <<FractionOf(SubSeq(t, 1, x[1])), Some(WordOf(t, x, lowered))>>
    /\ \A y \in MixedForms(t) :
          FractionOf(SubSeq(t, y[2], y[3][1])) # None =>
             out = <<Some(RatAdd(Rat(DigitsVal(SubSeq(t, 1, y[1])), 1),
                                 Val(FractionOf(SubSeq(t, y[2], y[3][1]))))),
                     Some(WordOf(t, y[3], lowered))>>
    /\ Cardinality({k \in {1, 2, 3} :
                      \/ k = 1 /\ QuantityForms(t) # {}
                      \/ k = 2 /\ FractionForms(t) # {}
                      \/ k = 3 /\ MixedForms(t) # {}}) <= 1

\* '500 g' gives (500, 'g'), '1/2 cup' gives (0.5, 'cup') and '1 1/2 cups'
\* gives (1.5, 'cups')
QuantityExamples(t, out) ==
    /\ t = T_500 \o Blanks(1) \o Str_g => out = <<Some(<<500, 1>>), Some(Str_g)>>
    /\ t = T_1_2 \o Blanks(1) \o W_cup => out = <<Some(<<1, 2>>), Some(W_cup)>>
    /\ t = T_1 \o Blanks(1) \o T_1_2 \o Blanks(1) \o W_cups => out = <<Some(<<3, 2>>), Some(W_cups)>>

\* C17 as first stated: after trimming, a number and a unit word give the
\* number and the lowercased word, a fraction a/b and a word give a/b and the
\* word, a mixed number w a/b and a word give w + a/b and the word, and no
\* text is of more than one of the three forms
C17_ThreePatternsUnitAsWritten ==
    QtyDone /\ call.input.type = "str" =>
       /\ QuantityAsRead(Strip(call.input.value), call.output, FALSE)
       /\ QuantityExamples(call.input.value, call.output)

\* C17: after trimming, a number and a unit word give the number and the
\* lowercased word, a fraction a/b (b not 0) and a word give a/b and the
\* lowercased word, a mixed number w a/b (b not 0) and a word give w + a/b and
\* the lowercased word, and no text is of more than one of the three forms
C17_ThreePatternsUnitLowercased ==
    QtyDone /\ call.input.type = "str" =>
       /\ QuantityAsRead(Strip(call.input.value), call.output, TRUE)
       /\ QuantityExamples(call.input.value, call.output)

\* a mixed number with a capitalised unit word has been parsed
C17_Witness ==
    /\ QtyDone /\ call.input.type = "str"
    /\ MixedForms(Strip(call.input.value)) # {}
    /\ Lower(call.input.value) # call.input.value
    /\ call.output = <<Some(<<3, 2>>), Some(W_cup)>>

\* the text is of one of the three forms, its denominator, if any, not 0
Parsable(t) ==
    \/ QuantityForms(t) # {}
    \/ \E x \in FractionForms(t) : FractionOf(SubSeq(t, 1, x[1])) # None
    \/ \E y \in MixedForms(t) : FractionOf(SubSeq(t, y[2], y[3][1])) # None

\* C18: every call of parse_quantity_string returns; the result is (None,
\* None) for an argument that is no string, is empty, is of none of the three
\* forms or has the denominator 0, and every result is (None, None) or has
\* both an amount and a unit
C18_TotalAndBothOrNeither ==
    QtyDone =>
       /\ call.output = NoQuantity
             \/ (call.output[1] # None /\ call.output[2] # None /\ Val(call.output[2]) # <<>>)
       /\ (call.input.type # "str" \/ ~Parsable(Strip(call.input.value)))
             => call.output = NoQuantity

\* a fraction with the denominator 0 and a unit word has been given
C18_Witness ==
    /\ QtyDone /\ call.input.type = "str"
    /\ \E x \in FractionForms(Strip(call.input.value)) :
          FractionOf(SubSeq(Strip(call.input.value), 1, x[1])) = None
    /\ call.output = NoQuantity

\* C19: the unit that fetch_product_info gives for the quantity of a product
\* is the canonical unit: the unit normalizer leaves it as it is
C19_BarcodeUnitNormalized ==
    (call.fn = "fetch_product_info" /\ call.done /\ call.output # None) =>
       \/ Val(call.output).parsed_unit = None
       \/ Val(call.output).parsed_unit = NormalizeUnit(Val(call.output).parsed_unit)

\* the calls of parse_recipe_ingredient that have been made
LineDone == call.fn = "parse_recipe_ingredient" /\ call.done

C21_NameOnlyLineIsName ==
    (/\ LineDone /\ Tokens(call.input) # <<>>
     /\ \A k \in DOMAIN Tokens(call.input) : IsAlphaWord(Tokens(call.input)[k])) =>
       /\ call.output.ok
       /\ call.output.qty = None
       /\ call.output.unit = None
       /\ call.output.name = Lower(Spaced(Tokens(call.input), 1))

\* C22: a line that begins with a mixed number W N/D, D not 0, is parsed as
\* the quantity W + N/D, the next word as the unit and the rest as the name;
\* a line that begins with a fraction N/D is parsed as the quantity N/D
C22_LeadingMixedNumberIsQuantity ==
    LineDone =>
       /\ (/\ Len(Tokens(call.input)) = 4
           /\ IsDigits(Tokens(call.input)[1])
           /\ IsFractionTok(Tokens(call.input)[2])
           /\ FractionOf(Tokens(call.input)[2]) # None
           /\ IsAlphaWord(Tokens(call.input)[3])) =>
             call.output =
                [ok |-> TRUE,
                 qty |-> Some(RatAdd(Rat(DigitsVal(Tokens(call.input)[1]), 1),
                                     Val(FractionOf(Tokens(call.input)[2])))),
                 unit |-> NormalizeUnit(Some(Tokens(call.input)[3])),
                 name |-> Lower(Tokens(call.input)[4])]
       /\ (/\ Len(Tokens(call.input)) >= 2
           /\ IsFractionTok(Tokens(call.input)[1])
           /\ FractionOf(Tokens(call.input)[1]) # None) =>
             call.output.ok /\ call.output.qty = FractionOf(Tokens(call.input)[1])

\* the lines of the recipe of the request r whose quantity token is a fraction
\* with the denominator 0
FailedQuantityLines(r) ==
    IF r.pc = "idle" THEN {}
    ELSE {i \in DOMAIN recipes[r.recipe].ingredients_text :
             /\ recipes[r.recipe].ingredients_text[i] # <<>>
             /\ IsFractionTok(recipes[r.recipe].ingredients_text[i][1])
             /\ FractionOf(recipes[r.recipe].ingredients_text[i][1]) = None}

\* the required item of line i has no quantity, and the unit and the name
\* that the line has with the quantity 1 in the place of its quantity token
ParsedWithoutQuantity(r, i, line) ==
    \E k \in DOMAIN r.required_items :
       /\ r.required_items[k].line_no = i
       /\ r.required_items[k].qty = None
       /\ r.required_items[k].unit = parse_recipe_ingredient(<<T_1>> \o Tail(line)).unit
       /\ r.required_items[k].name = parse_recipe_ingredient(<<T_1>> \o Tail(line)).name
       /\ r.required_items[k].name # <<>>
       /\ r.required_items[k].name \notin DOMAIN r.fridge_ingredients
             <=> InSeq(line, r.missing_ingredients)

\* C23: a line whose quantity token fails numeric conversion is parsed, with
\* no quantity and with its unit and name; in use_recipe it is no parsing
\* error, the request is not stopped by it, and it is handled as a required
\* item without quantity: no plan entry, no unit mismatch, and missing exactly
\* when no record has its name
C23_FailedQuantityIsNullNotError ==
    \A p \in Procs : \A i \in FailedQuantityLines(req[p]) :
       /\ req[p].parsing_errors = <<>>
       /\ req[p].outcome # "skipped"
       /\ ParsedWithoutQuantity(req[p], i, recipes[req[p].recipe].ingredients_text[i])
       /\ EntriesOf(req[p], i) = {}
       /\ ~InSeq(recipes[req[p].recipe].ingredients_text[i], req[p].unit_mismatches)

\* a recipe of the single line "1/0 cups Egg" has been used with an egg in
\* the fridge: the request succeeded and deducted nothing
C23_Witness ==
    \E p \in Procs :
       /\ FailedQuantityLines(req[p]) = {1}
       /\ Len(recipes[req[p].recipe].ingredients_text) = 1
       /\ req[p].outcome = "success" /\ req[p].deductions = <<>>
       /\ <<req[p].user, req[p].recipe>> \in completed

\* the canonical unit that the table of synonyms gives for a lowercased unit,
\* or nothing
Canonical(u) ==
    IF u \in {Str_g, Str_gram, Str_grams} THEN Some(Str_g)
    ELSE IF u \in {Str_kg, Str_kilogram, Str_kilograms} THEN Some(Str_kg)
    ELSE IF u \in {Str_ml, Str_milliliter, Str_milliliters} THEN Some(Str_ml)
    ELSE IF u \in {Str_l, Str_liter, Str_liters} THEN Some(Str_l)
    ELSE None

\* C24: the unit of a parsed line is the canonical unit of the unit word,
\* whatever its case, when the table has one, and the unit word as written
\* otherwise; normalizing the returned unit again, null included, gives the
\* same unit
C24_UnitNormalizationIdempotent ==
    (LineDone /\ call.output.ok) =>
       /\ NormalizeUnit(call.output.unit) = call.output.unit
       /\ (/\ Len(Tokens(call.input)) = 3
           /\ IsNumberTok(Tokens(call.input)[1])
           /\ IsAlphaWord(Tokens(call.input)[2])) =>
             call.output.unit =
                IF Canonical(Lower(Tokens(call.input)[2])) # None
                THEN Canonical(Lower(Tokens(call.input)[2]))
                ELSE Some(Tokens(call.input)[2])

\* the unit "LITERS" has been folded to "l"
C24_Witness ==
    /\ LineDone /\ Len(Tokens(call.input)) = 3
    /\ Tokens(call.input)[2] = W_LITERS
    /\ call.output.unit = Some(Str_l)

\* C27: when the leading number of a line is followed by three or more
\* words, the unit is the first two of them, as written and not folded by the
\* table of synonyms, and the name is the rest
C27_UnitTakesTwoWords ==
    (/\ LineDone /\ Len(Tokens(call.input)) >= 4
     /\ IsNumberTok(Tokens(call.input)[1])
     /\ \A k \in 2..Len(Tokens(call.input)) : IsWordTok(Tokens(call.input)[k])) =>
       call.output =
          [ok |-> TRUE,
           qty |-> Some(DecimalOf(Tokens(call.input)[1])),
           unit |-> Some(Tokens(call.input)[2] \o Blanks(1) \o Tokens(call.input)[3]),
           name |-> Lower(Spaced(SubSeq(Tokens(call.input), 4, Len(Tokens(call.input))), 1))]

\* "2 Grams Olive oil" has given the unit "Grams Olive" and the name "oil"
C27_Witness ==
    /\ LineDone
    /\ Tokens(call.input) = <<T_2, W_Grams, W_Olive, W_oil>>
    /\ call.output.unit = Some(W_Grams \o Blanks(1) \o W_Olive)
    /\ call.output.name = W_oil

\* C26: the amounts of all plan entries of a request that target one field
\* of one record sum to no more than the field held when the request read it
C26_PlanNeverExceedsStock ==
    \A p \in Procs : \A id \in DOMAIN req[p].snapshot : \A field \in {"quantity", "weight"} :
       req[p].snapshot[id][field] # None =>
          FieldAfter(req[p], id, field, Len(req[p].deductions))[1] >= 0

\* the fields of the record id that the plan of the request r targets
TargetedFields(r, id) ==
    {r.deductions[k].deduct_from :
        k \in {j \in DOMAIN r.deductions : r.deductions[j].ingredient_obj = id}}

\* the step is the commit of a request that ends with success
SuccessOf(p) == req[p].pc = "completed" /\ req'[p].outcome = "success"

\* C28: no step adds an ingredient record, and a step that changes or removes
\* one is the commit of a successful request whose plan has an entry for that
\* record; a record that stays has changed in the targeted fields only.  So
\* the records without a plan entry, those matched by items without quantity
\* or by dropped items and those of other users among them, stay as they are
C28_OnlyPlannedFieldsChange ==
    [][/\ DOMAIN ingredients' \subseteq DOMAIN ingredients
       /\ \A id \in DOMAIN ingredients :
             (id \notin DOMAIN ingredients' \/ ingredients'[id] # ingredients[id]) =>
                \E p \in Procs :
                   /\ SuccessOf(p)
                   /\ TargetedFields(req[p], id) # {}
                   /\ ingredients[id].user_id = req[p].user
                   /\ id \in DOMAIN ingredients' =>
                         \A f \in DOMAIN ingredients[id] \ TargetedFields(req[p], id) :
                            ingredients'[id][f] = ingredients[id][f]]_vars

\* a successful request has lowered the flour and has left alone the egg that
\* an item without quantity matched, and the flour of the other user
C28_Witness ==
    \E p \in Procs : \E item \in ItemsOf(req[p]) :
       /\ req[p].outcome = "success"
       /\ item.qty = None /\ item.name \in DOMAIN req[p].fridge_ingredients
       /\ TargetedFields(req[p], req[p].fridge_ingredients[item.name]) = {}
       /\ Unchanged(req[p], req[p].fridge_ingredients[item.name])
       /\ \E id \in DOMAIN ingredients :
             /\ TargetedFields(req[p], id) # {}
             /\ ingredients[id] # req[p].snapshot[id]
       /\ \E id \in DOMAIN ingredients : ingredients[id] = OtherRow

\* the lines of the recipe of the request r that are not blank
NonBlankLines(r) ==
    IF r.pc = "idle" THEN {}
    ELSE {i \in DOMAIN recipes[r.recipe].ingredients_text :
             recipes[r.recipe].ingredients_text[i] # <<>>}

\* C29: every line that is not blank gives a required item with a name that
\* is not empty; parsing_errors stays empty and a request is skipped only
\* for a text without any ingredient, never for a parsing error
C29_NoParsingErrors ==
    \A p \in Procs :
       /\ req[p].parsing_errors = <<>>
       /\ \A k \in DOMAIN req[p].required_items : req[p].required_items[k].name # <<>>
       /\ {req[p].required_items[k].line_no : k \in DOMAIN req[p].required_items}
             = NonBlankLines(req[p])
       /\ req[p].outcome = "skipped" => NonBlankLines(req[p]) = {}

\* a blank text has been used: the request was skipped for want of ingredients
C29_Witness ==
    \E p \in Procs :
       /\ req[p].pc = "done" /\ req[p].outcome = "skipped"
       /\ recipes[req[p].recipe].ingredients_text = <<<<>>>>
       /\ req[p].parsing_errors = <<>>

(***************************************************************************)
(* The accounts: registration, login, approval, password reset and the     *)
(* lockout after failed logins.                                            *)
(***************************************************************************)
\* the failed logins counted on one account
MaxFailures == 6

\* the clock stops after this many steps of half the lockout time
MaxClock == 4

HalfLockout == DEFAULT_LOGIN_LOCKOUT_TIME \div 2

Usernames == {W_admin, W_user}

Emails == {E_admin, E_User}

Passwords == {PW_Secret, PW_Other, PW_guess}

\* the ids a request may name: those of the accounts and one that no
\* account has
UserIds == 1..(Cardinality(Emails) + 1)

ByEmail(us, email) == {id \in DOMAIN us : us[id].email = email}

ByUsername(us, username) == {id \in DOMAIN us : us[id].username = username}

\* query.first()
First(ids) == CHOOSE id \in ids : \A other \in ids : id <= other

\* the account operations leave the recipe tables and workers alone
RecipesUntouched == UNCHANGED <<ingredients, recipes, saved, completed, tx, req, call>>

\* RegistrationForm: validate_username, validate_email, password_complexity
RegistrationFormValid(us, username, email, password) ==
    /\ ByUsername(us, username) = {}
    /\ ByEmail(us, Lower(email)) = {}
    /\ PasswordAccepted(password)

\* POST /register
RegisterPost(c, username, email, password) ==
    /\ users' = IF sessions[c] = None /\ RegistrationFormValid(users, username, email, password)
                THEN users @@ (Cardinality(DOMAIN users) + 1 :>
                                  User(username, email, password, FALSE, FALSE))
                ELSE users
    /\ UNCHANGED <<sessions, now>>
    /\ RecipesUntouched

LoginRejected(us) == [users |-> us, user |-> None]

\* variant of LoginChecks: an account that was not approved logs in
LoginChecks_ApprovalSkipped(us, id, password, utcnow) ==
    IF is_locked(us[id], utcnow) THEN LoginRejected(us)
    ELSE IF ~verify_password(us[id], password)
    THEN LoginRejected([us EXCEPT ![id] = increment_login_attempts(@, utcnow)])
    ELSE [users |-> [us EXCEPT ![id] = reset_login_attempts(@)], user |-> Some(id)]

\* login, once the user was found: lines 64-84
LoginChecks(us, id, password, utcnow) ==
    IF is_locked(us[id], utcnow) THEN LoginRejected(us)
    ELSE IF ~verify_password(us[id], password)
    THEN LoginRejected([us EXCEPT ![id] = increment_login_attempts(@, utcnow)])
    ELSE IF ~us[id].is_approved THEN LoginRejected(us)
    ELSE [users |-> [us EXCEPT ![id] = reset_login_attempts(@)], user |-> Some(id)]

\* the users table and the user logged in, after login
LoginOutcome(us, found, password, utcnow) ==
    IF found = {} THEN LoginRejected(us)
    ELSE LoginChecks(us, First(found), password, utcnow)

LoginApply(c, out) ==
    /\ \A id \in DOMAIN out.users : out.users[id].login_attempts <= MaxFailures
    /\ users' = out.users
    /\ sessions' = IF out.user # None THEN [sessions EXCEPT ![c] = out.user] ELSE sessions

\* POST /login
LoginPost(c, email, password) ==
    /\ IF sessions[c] # None
       THEN UNCHANGED <<users, sessions>>
       ELSE LoginApply(c, LoginOutcome(users, ByEmail(users, Lower(email)), password, now))
    /\ UNCHANGED now
    /\ RecipesUntouched

\* GET /logout
Logout(c) ==
    /\ sessions' = [sessions EXCEPT ![c] = None]
    /\ UNCHANGED <<users, now>>
    /\ RecipesUntouched

\* login_required, admin_required and get_or_404
AdminGate(c, id) ==
    /\ sessions[c] # None
    /\ users[sessions[c][1]].is_admin
    /\ id \in DOMAIN users

\* POST /admin/user/<id>/approve
ApproveUserPost(c, id) ==
    /\ users' = IF AdminGate(c, id) /\ ~users[id].is_approved
                THEN [users EXCEPT ![id].is_approved = TRUE]
                ELSE users
    /\ UNCHANGED <<sessions, now>>
    /\ RecipesUntouched

\* the password setter, then reset_login_attempts
PasswordReset(user, password) ==
    reset_login_attempts([user EXCEPT !.password_hash = generate_password_hash(password)])

\* POST /reset_password/<token>, the token naming the user id
ResetPasswordPost(c, id, password) ==
    /\ users' = IF sessions[c] = None /\ id \in DOMAIN users /\ PasswordAccepted(password)
                THEN [users EXCEPT ![id] = PasswordReset(@, password)]
                ELSE users
    /\ UNCHANGED <<sessions, now>>
    /\ RecipesUntouched

\* flask set-password <username>
SetPasswordCommand(username, password) ==
    /\ users' = IF ByUsername(users, username) # {} /\ PasswordAccepted(password)
                THEN [users EXCEPT ![First(ByUsername(users, username))] =
                                       PasswordReset(@, password)]
                ELSE users
    /\ UNCHANGED <<sessions, now>>
    /\ RecipesUntouched

\* time passes
Tick ==
    /\ now < MaxClock * HalfLockout
    /\ now' = now + HalfLockout
    /\ UNCHANGED <<users, sessions>>
    /\ RecipesUntouched

InitAuth ==
    /\ ingredients = <<>>
    /\ recipes = [rid \in RecipeIds |-> [ingredients_text |-> <<>>]]
    /\ saved = {}
    /\ completed = {}
    /\ tx = [p \in Procs |-> NoTx]
    /\ req = [p \in Procs |-> Idle]
    /\ call = NoCall
    /\ users = (1 :> AdminUser)
    /\ sessions = [c \in Browsers |-> None]
    /\ now = 0

NextAuth ==
    \/ \E c \in Browsers, username \in Usernames, email \in Emails, password \in Passwords :
          RegisterPost(c, username, email, password)
    \/ \E c \in Browsers, email \in Emails, password \in Passwords : LoginPost(c, email, password)
    \/ \E c \in Browsers : Logout(c)
    \/ \E c \in Browsers, id \in UserIds : ApproveUserPost(c, id)
    \/ \E c \in Browsers, id \in UserIds, password \in Passwords : ResetPasswordPost(c, id, password)
    \/ \E username \in Usernames, password \in Passwords : SetPasswordCommand(username, password)
    \/ Tick

SpecAuth == InitAuth /\ [][NextAuth]_vars

\* the accounts that a login with this email looks up
Account(email) == ByEmail(users, Lower(email))

\* the four conditions of a login, in the state before the request
LoginAllowed(id, password) ==
    /\ id \in DOMAIN users
    /\ ~is_locked(users[id], now)
    /\ verify_password(users[id], password)
    /\ users[id].is_approved

\* the session of browser c was established by a login that met the conditions
SessionByLogin(c) ==
    \E email \in Emails :
        /\ Account(email) = {sessions'[c][1]}
        /\ \E password \in Passwords :
              LoginAllowed(sessions'[c][1], password) /\ LoginPost(c, email, password)

\* the account was approved by a logged-in administrator's approve_user
ApprovedByAdmin(id) ==
    \E c \in Browsers :
        /\ ApproveUserPost(c, id)
        /\ sessions[c] # None
        /\ users[sessions[c][1]].is_admin

\* C25: in every sequence of register, login, failed-login and approve
\* operations, a login request establishes a session only if the account
\* exists, is not locked, the password verifies and the account has been
\* approved; an account created by registration starts unapproved, becomes
\* approved only through an administrator's approve_user, and no operation
\* un-approves an account.
C25_SessionOnlyForApproved ==
    [][/\ \A c \in Browsers :
            sessions'[c] # sessions[c] /\ sessions'[c] # None => SessionByLogin(c)
       /\ \A id \in DOMAIN users' \ DOMAIN users : ~users'[id].is_approved
       /\ \A id \in DOMAIN users :
            /\ id \in DOMAIN users'
            /\ users[id].is_approved => users'[id].is_approved
            /\ ~users[id].is_approved /\ users'[id].is_approved => ApprovedByAdmin(id)]_vars

\* a registered account was approved and has logged in
C25_Witness ==
    \E c \in Browsers :
        /\ sessions[c] # None
        /\ users[sessions[c][1]].username = W_user
        /\ users[sessions[c][1]].is_approved

\* a login of account id in a browser where nobody is logged in, the
\* password not verifying
FailedLogin(id) ==
    \E email \in Emails :
        /\ Account(email) = {id}
        /\ \E c \in Browsers, password \in Passwords :
              /\ sessions[c] = None
              /\ ~verify_password(users[id], password)
              /\ LoginPost(c, email, password)

\* a login of account id, whatever the password
AnyLogin(id) ==
    \E email \in Emails :
        /\ Account(email) = {id}
        /\ \E c \in Browsers, password \in Passwords : LoginPost(c, email, password)

SuccessfulLogin(id) ==
    \E c \in Browsers : sessions[c] = None /\ sessions'[c] = Some(id) /\ SessionByLogin(c)

PasswordWasReset(id) ==
    \/ \E c \in Browsers, password \in Passwords :
          ResetPasswordPost(c, id, password) /\ PasswordAccepted(password)
    \/ \E username \in Usernames, password \in Passwords :
          /\ SetPasswordCommand(username, password)
          /\ users[id].username = username
          /\ PasswordAccepted(password)

\* C30: login_attempts is incremented only by a failed password check on an
\* account that is not locked, and reaching MAX_LOGIN_ATTEMPTS sets the lock;
\* while the account is locked every login is rejected, even with the correct
\* password, and login_attempts does not change; login_attempts is reset to 0
\* only by a successful login or a password reset, not by lock expiry, so the
\* first failed attempt after the lock expires locks the account again.
C30_LoginLockout ==
    [][\A id \in DOMAIN users :
        /\ users'[id].login_attempts > users[id].login_attempts =>
              /\ users'[id].login_attempts = users[id].login_attempts + 1
              /\ ~is_locked(users[id], now)
              /\ FailedLogin(id)
        /\ /\ users'[id].login_attempts > users[id].login_attempts
           /\ users'[id].login_attempts >= DEFAULT_MAX_LOGIN_ATTEMPTS
           => users'[id].locked_until = Some(now + DEFAULT_LOGIN_LOCKOUT_TIME)
        /\ is_locked(users[id], now) /\ (users'[id] # users[id] \/ sessions' # sessions)
              => ~AnyLogin(id)
        /\ users'[id].login_attempts < users[id].login_attempts =>
              /\ users'[id].login_attempts = 0
              /\ SuccessfulLogin(id) \/ PasswordWasReset(id)
        /\ now' # now => users'[id] = users[id]
        /\ /\ users[id].locked_until # None
           /\ ~is_locked(users[id], now)
           /\ FailedLogin(id)
           => is_locked(users'[id], now')]_vars

\* the lock of an account expired, and the next failed login locked it again
C30_Witness ==
    \E id \in DOMAIN users :
        /\ users[id].login_attempts > DEFAULT_MAX_LOGIN_ATTEMPTS
        /\ is_locked(users[id], now)

====
